---- MODULE Spec2Model ----
(***************************************************************************)
(* A model of the positional XML splicing engine of docx-chart-updater.   *)
(* Package parts are modelled as the byte strings the Go code reads and    *)
(* writes; every string operation (strings.Index, slicing, concatenation)  *)
(* is computed character by character on those strings.                    *)
(***************************************************************************)
EXTENDS Integers, Sequences, FiniteSets, TLC

\* Bounds of the table fixtures: tables, rows of a table, cells of a row, and
\* the cells of a document.
MaxTables == 3
MaxRows == 3
MaxCols == 3
MaxCells == 27

\* The most operations applied in a row to one package.
MaxOps == 2

VARIABLES doc,        \* content of word/document.xml
          rels,       \* content of word/_rels/document.xml.rels
          ctypes,     \* content of [Content_Types].xml
          footnotes,  \* content of word/footnotes.xml ("" while the file is absent)
          endnotes,   \* content of word/endnotes.xml ("" while the file is absent)
          comments,   \* content of word/comments.xml ("" while the file is absent)
          styles,     \* content of word/styles.xml ("" while the file is absent)
          files,      \* the names of the parts present in the extracted package
          headers,    \* the content of each header part, by its name
          shape,      \* the parameters the initial package was built from
          steps,      \* the number of operations applied so far
          op,         \* name of the last public operation ("init" before any)
          args,       \* its arguments
          err,        \* the error it returned ("" is nil)
          ret,        \* the values it computed besides the error
          pre         \* the package as it was when the operation started

vars == <<doc, rels, ctypes, footnotes, endnotes, comments, styles, files,
          headers, shape, steps, op, args, err, ret, pre>>

\* The directories the package may be extracted to: the system names the
\* directory, under its directory for temporary files.
TempDirs == {"/tmp/docx-test-2712", "/var/tmp/docx-test-94"}

\* u.tempDir: chosen with the package, and the same for every call on it.
tempDir ==
  IF "dir" \in DOMAIN shape THEN shape.dir ELSE CHOOSE d \in TempDirs : TRUE

\* The package as one record: what an operation reads and what it returns.
Pkg ==
  [doc |-> doc, rels |-> rels, ctypes |-> ctypes, footnotes |-> footnotes,
   endnotes |-> endnotes, comments |-> comments, styles |-> styles,
   files |-> files, headers |-> headers, tempDir |-> tempDir]

\* The extracted package p becomes the state.
Loaded(p) ==
  /\ doc = p.doc
  /\ rels = p.rels
  /\ ctypes = p.ctypes
  /\ footnotes = p.footnotes
  /\ endnotes = p.endnotes
  /\ comments = p.comments
  /\ styles = p.styles
  /\ files = p.files
  /\ headers = p.headers

(***************************************************************************)
(* Go string primitives.                                                   *)
(***************************************************************************)

\* s[a:b]
Slice(s, a, b) == SubSeq(s, a + 1, b)

\* s[a:]
From(s, a) == SubSeq(s, a + 1, Len(s))

\* The offsets at which sub occurs in s.
Occurrences(s, sub) ==
  {i \in 0..(Len(s) - Len(sub)) : SubSeq(s, i + 1, i + Len(sub)) = sub}

SetMin(S) == CHOOSE i \in S : \A j \in S : i <= j

SetMax(S) == CHOOSE i \in S : \A j \in S : i >= j

\* strings.Index: the first offset of sub in s, or -1.
Index(s, sub) ==
  LET M == Occurrences(s, sub) IN IF M = {} THEN -1 ELSE SetMin(M)

\* bytes.LastIndex: the last offset of sub in s, or -1.
LastIndex(s, sub) ==
  LET M == Occurrences(s, sub) IN IF M = {} THEN -1 ELSE SetMax(M)

\* strings.Contains
Contains(s, sub) == Occurrences(s, sub) # {}

\* strings.HasPrefix / strings.HasSuffix
HasPrefix(s, p) == Len(s) >= Len(p) /\ SubSeq(s, 1, Len(p)) = p

HasSuffix(s, p) == Len(s) >= Len(p) /\ SubSeq(s, Len(s) - Len(p) + 1, Len(s)) = p

\* raw[:pos] + insert + raw[pos:]
insertAt(raw, pos, insert) == Slice(raw, 0, pos) \o insert \o From(raw, pos)

Digits == "0123456789"

\* fmt.Sprintf("%d", n) for n >= 0
RECURSIVE ToStr(_)
ToStr(n) ==
  IF n < 10 THEN SubSeq(Digits, n + 1, n + 1)
  ELSE ToStr(n \div 10) \o SubSeq(Digits, (n % 10) + 1, (n % 10) + 1)

(***************************************************************************)
(* PositionalLocator: findNthXMLBlock.                                     *)
(***************************************************************************)

\* Mutation of pickIdx: the attribute form of the open tag is ignored.
pickIdxExactOnly(ie, ia) == ie

\* The switch choosing the earlier of the two open-tag forms.
pickIdx(ie, ia) ==
  IF ie >= 0 /\ ia >= 0 THEN (IF ie <= ia THEN ie ELSE ia)
  ELSE IF ie >= 0 THEN ie
  ELSE IF ia >= 0 THEN ia
  ELSE -1

\* The loop of findNthXMLBlock: remaining is content[offset:], count the
\* number of blocks passed.
RECURSIVE findNthLoop(_, _, _, _, _)
findNthLoop(remaining, tag, n, count, offset) ==
  LET closeTag == "</" \o tag \o ">"
      idx == pickIdx(Index(remaining, "<" \o tag \o ">"),
                     Index(remaining, "<" \o tag \o " "))
      closeIdx == Index(From(remaining, idx), closeTag)
      end == idx + closeIdx + Len(closeTag)
  IN IF idx < 0
     THEN [start |-> 0, end |-> 0,
           err |-> "only " \o ToStr(count) \o " " \o tag \o " element(s) found"]
     ELSE IF closeIdx < 0
     THEN [start |-> 0, end |-> 0, err |-> "unclosed <" \o tag \o ">"]
     ELSE IF count + 1 = n
     THEN [start |-> offset + idx, end |-> offset + end, err |-> ""]
     ELSE findNthLoop(From(remaining, end), tag, n, count + 1, offset + end)

findNthXMLBlock(content, tag, n) == findNthLoop(content, tag, n, 0, 0)

(***************************************************************************)
(* CellBlockEditor: merge.go.  A function that works on the blocks it      *)
(* located is written as a chain of operators, each taking the block the   *)
(* step before it found.                                                   *)
(***************************************************************************)

injectTcPrElement(cellContent, element) ==
  LET iSelf == Index(cellContent, "<w:tcPr/>")
      iOpen == Index(cellContent, "<w:tcPr>")
      iAttr == Index(cellContent, "<w:tcPr ")
      gt == Index(cellContent, ">")
  IN IF iSelf >= 0
     THEN Slice(cellContent, 0, iSelf) \o "<w:tcPr>" \o element \o "</w:tcPr>"
          \o From(cellContent, iSelf + Len("<w:tcPr/>"))
     ELSE IF iOpen >= 0
     THEN insertAt(cellContent, iOpen + Len("<w:tcPr>"), element)
     ELSE IF iAttr >= 0 /\ Index(From(cellContent, iAttr), ">") >= 0
     THEN insertAt(cellContent,
                   iAttr + Index(From(cellContent, iAttr), ">") + 1, element)
     ELSE IF gt < 0 THEN cellContent
     ELSE insertAt(cellContent, gt + 1, "<w:tcPr>" \o element \o "</w:tcPr>")

\* Mutation of gridSpanValue: off by one.
gridSpanValueShort(startCol, endCol) == endCol - startCol

\* span := endCol - startCol + 1
gridSpanValue(startCol, endCol) == endCol - startCol + 1

\* Mutation of splice: the bytes after the replaced span are taken from its start.
spliceFromStart(content, start, end, new) ==
  Slice(content, 0, start) \o new \o From(content, start)

\* content[:start] + new + content[end:]
splice(content, start, end, new) ==
  Slice(content, 0, start) \o new \o From(content, end)

\* The block at span of content replaced by the edited block, unless the
\* edit failed.
spliceEdited(content, span, edited) ==
  IF edited.err # "" THEN edited
  ELSE [out |-> splice(content, span.start, span.end, edited.out), err |-> ""]

\* mergeTableCellsHorizontal from the two cells on: the new row.
mergeRowCells(trContent, startCol, endCol, tc1, tcLast) ==
  IF tc1.err # ""
  THEN [out |-> "",
        err |-> "cell " \o ToStr(startCol) \o " not found: " \o tc1.err]
  ELSE IF tcLast.err # ""
  THEN [out |-> "",
        err |-> "cell " \o ToStr(endCol) \o " not found: " \o tcLast.err]
  ELSE [out |-> Slice(trContent, 0, tc1.start)
                \o injectTcPrElement(
                     Slice(trContent, tc1.start, tc1.end),
                     "<w:gridSpan w:val=\""
                     \o ToStr(gridSpanValue(startCol, endCol)) \o "\"/>")
                \o From(trContent, tcLast.end),
        err |-> ""]

\* mergeTableCellsHorizontal from the row on: the new table.
mergeTableRow(tblContent, row, startCol, endCol, tr) ==
  IF tr.err # ""
  THEN [out |-> "", err |-> "row " \o ToStr(row) \o " not found: " \o tr.err]
  ELSE spliceEdited(tblContent, tr,
         mergeRowCells(Slice(tblContent, tr.start, tr.end), startCol, endCol,
           findNthXMLBlock(Slice(tblContent, tr.start, tr.end), "w:tc",
                           startCol),
           findNthXMLBlock(Slice(tblContent, tr.start, tr.end), "w:tc",
                           endCol)))

\* mergeTableCellsHorizontal from the table on: the new document.
mergeDocTable(raw, tableIndex, row, startCol, endCol, tbl) ==
  IF tbl.err # ""
  THEN [out |-> "",
        err |-> "table " \o ToStr(tableIndex) \o " not found: " \o tbl.err]
  ELSE spliceEdited(raw, tbl,
         mergeTableRow(Slice(raw, tbl.start, tbl.end), row, startCol, endCol,
           findNthXMLBlock(Slice(raw, tbl.start, tbl.end), "w:tr", row)))

mergeTableCellsHorizontal(raw, tableIndex, row, startCol, endCol) ==
  IF endCol <= startCol
  THEN [out |-> "",
        err |-> "endCol (" \o ToStr(endCol) \o ") must be greater than startCol ("
                \o ToStr(startCol) \o ")"]
  ELSE mergeDocTable(raw, tableIndex, row, startCol, endCol,
                     findNthXMLBlock(raw, "w:tbl", tableIndex))

\* Mutation of mergeElement: the first row is marked as a continuation too.
mergeElementAlwaysContinue(row, startRow) == "<w:vMerge/>"

mergeElement(row, startRow) ==
  IF row = startRow THEN "<w:vMerge w:val=\"restart\"/>" ELSE "<w:vMerge/>"

\* One round of the loop of mergeTableCellsVertical from the cell on.
vMergeCell(trContent, startRow, col, row, tc) ==
  IF tc.err # ""
  THEN [out |-> "",
        err |-> "cell at row " \o ToStr(row) \o " col " \o ToStr(col)
                \o " not found: " \o tc.err]
  ELSE [out |-> splice(trContent, tc.start, tc.end,
                       injectTcPrElement(Slice(trContent, tc.start, tc.end),
                                         mergeElement(row, startRow))),
        err |-> ""]

\* One round from the row on.
vMergeRow(tblContent, startRow, col, row, tr) ==
  IF tr.err # ""
  THEN [out |-> "", err |-> "row " \o ToStr(row) \o " not found: " \o tr.err]
  ELSE spliceEdited(tblContent, tr,
         vMergeCell(Slice(tblContent, tr.start, tr.end), startRow, col, row,
           findNthXMLBlock(Slice(tblContent, tr.start, tr.end), "w:tc", col)))

\* One round from the table on: the table was located in the current result.
vMergeTable(result, tableIndex, startRow, col, row, tbl) ==
  IF tbl.err # ""
  THEN [out |-> "",
        err |-> "table " \o ToStr(tableIndex) \o " not found: " \o tbl.err]
  ELSE spliceEdited(result, tbl,
         vMergeRow(Slice(result, tbl.start, tbl.end), startRow, col, row,
           findNthXMLBlock(Slice(result, tbl.start, tbl.end), "w:tr", row)))

RECURSIVE mergeVerticalLoop(_, _, _, _, _, _)

\* The loop goes on with the result of the round, or returns its error.
vMergeNext(round, tableIndex, startRow, endRow, col, row) ==
  IF round.err # "" THEN round
  ELSE mergeVerticalLoop(round.out, tableIndex, startRow, endRow, col, row + 1)

\* The loop of mergeTableCellsVertical, from row to endRow, over result.
mergeVerticalLoop(result, tableIndex, startRow, endRow, col, row) ==
  IF row > endRow THEN [out |-> result, err |-> ""]
  ELSE vMergeNext(vMergeTable(result, tableIndex, startRow, col, row,
                              findNthXMLBlock(result, "w:tbl", tableIndex)),
                  tableIndex, startRow, endRow, col, row)

mergeTableCellsVertical(raw, tableIndex, startRow, endRow, col) ==
  IF endRow <= startRow
  THEN [out |-> "",
        err |-> "endRow (" \o ToStr(endRow) \o ") must be greater than startRow ("
                \o ToStr(startRow) \o ")"]
  ELSE mergeVerticalLoop(raw, tableIndex, startRow, endRow, col, startRow)

\* Mutation of writeBack: the result is written whatever the error.
writeBackAlways(raw, r) == r.out

\* if err != nil { return err }; return os.WriteFile(docPath, updated, 0o644)
writeBack(raw, r) == IF r.err # "" THEN raw ELSE r.out

\* The document and the error a merge leaves, r being what the merge computed.
merged(raw, r) == [doc |-> writeBack(raw, r), err |-> r.err]

(***************************************************************************)
(* The public merge operations: on the returned record, doc is the         *)
(* content of document.xml after the call.                                 *)
(***************************************************************************)

\* Mutation of MergeTableCellsHorizontal: the range of the columns is not
\* validated.
MergeTableCellsHorizontalAnyRange(raw, tableIndex, row, startCol, endCol) ==
  IF tableIndex < 1 THEN [doc |-> raw, err |-> "tableIndex must be >= 1"]
  ELSE IF row < 1 THEN [doc |-> raw, err |-> "row must be >= 1"]
  ELSE IF startCol < 1 THEN [doc |-> raw, err |-> "startCol must be >= 1"]
  ELSE merged(raw, mergeTableCellsHorizontal(raw, tableIndex, row, startCol,
                                             endCol))

MergeTableCellsHorizontal(raw, tableIndex, row, startCol, endCol) ==
  IF tableIndex < 1 THEN [doc |-> raw, err |-> "tableIndex must be >= 1"]
  ELSE IF row < 1 THEN [doc |-> raw, err |-> "row must be >= 1"]
  ELSE IF startCol < 1 THEN [doc |-> raw, err |-> "startCol must be >= 1"]
  ELSE IF endCol <= startCol
  THEN [doc |-> raw, err |-> "endCol must be greater than startCol"]
  ELSE merged(raw, mergeTableCellsHorizontal(raw, tableIndex, row, startCol,
                                             endCol))

MergeTableCellsVertical(raw, tableIndex, startRow, endRow, col) ==
  IF tableIndex < 1 THEN [doc |-> raw, err |-> "tableIndex must be >= 1"]
  ELSE IF col < 1 THEN [doc |-> raw, err |-> "col must be >= 1"]
  ELSE IF startRow < 1 THEN [doc |-> raw, err |-> "startRow must be >= 1"]
  ELSE IF endRow <= startRow
  THEN [doc |-> raw, err |-> "endRow must be greater than startRow"]
  ELSE merged(raw, mergeTableCellsVertical(raw, tableIndex, startRow, endRow,
                                           col))

(***************************************************************************)
(* More string primitives, used by the package operations.                 *)
(***************************************************************************)

\* strings.Replace(s, old, new, 1)
Replace1(s, old, new) ==
  LET i == Index(s, old)
  IN IF i < 0 THEN s ELSE Slice(s, 0, i) \o new \o From(s, i + Len(old))

\* The least element of S, or d when S is empty.
minOr(S, d) == IF S = {} THEN d ELSE SetMin(S)

\* The length of the run of digits of s that starts at offset q: (\d+)
RECURSIVE DigitRunLen(_, _)
DigitRunLen(s, q) ==
  IF q < Len(s) /\ Contains(Digits, SubSeq(s, q + 1, q + 1))
  THEN 1 + DigitRunLen(s, q + 1)
  ELSE 0

\* strconv.Atoi on a string of digits (within the range of int)
RECURSIVE Atoi(_)
Atoi(str) ==
  IF Len(str) = 0 THEN 0
  ELSE Atoi(SubSeq(str, 1, Len(str) - 1)) * 10
       + Index(Digits, SubSeq(str, Len(str), Len(str)))

\* The offsets q of s at which  attr(\d+)"  matches, attr ending in a quote.
AttrMatches(s, attr) ==
  {q \in Occurrences(s, attr) :
     LET e == q + Len(attr) + DigitRunLen(s, q + Len(attr))
     IN e > q + Len(attr) /\ e < Len(s) /\ SubSeq(s, e + 1, e + 1) = "\""}

\* The integer captured by the match at offset q.
AttrValue(s, attr, q) ==
  Atoi(Slice(s, q + Len(attr), q + Len(attr) + DigitRunLen(s, q + Len(attr))))

\* Mutation of maxIDOf: the number of ids found stands in for the highest.
maxIDOfCount(ids) == Cardinality(ids)

\* maxID := 0; for each match: if id > maxID { maxID = id }
maxIDOf(ids) == IF ids = {} THEN 0 ELSE SetMax(ids \cup {0})

\* The matches Q of the attribute that lie in the tag opened by prefix at p:
\* after the prefix, before the first '>' of G after it.
inTag(s, prefix, Q, G, p) ==
  {q \in Q : q >= p + Len(prefix)
             /\ q < minOr({g \in G : g >= p + Len(prefix)}, Len(s))}

RECURSIVE scanTagLoop(_, _, _, _, _, _)

\* The match whose attribute is at q0 is taken; the scan goes on after it.
scanTagTake(s, prefix, attr, Q, G, q0) ==
  {AttrValue(s, attr, q0)}
  \cup scanTagLoop(s, prefix, attr, Q, G,
                   q0 + Len(attr) + DigitRunLen(s, q0 + Len(attr)) + 1)

\* Of the offsets of the prefix at or after pos where a match starts, the
\* leftmost is taken, its [^>]* as long as it can be.
scanTagLoop(s, prefix, attr, Q, G, pos) ==
  LET P == {p \in Occurrences(s, prefix) :
              p >= pos /\ inTag(s, prefix, Q, G, p) # {}}
  IN IF P = {} THEN {}
     ELSE scanTagTake(s, prefix, attr, Q, G,
                      SetMax(inTag(s, prefix, Q, G, SetMin(P))))

\* FindAllSubmatch of  prefix[^>]*attr(\d+)"  over s from offset pos.
scanTagIDs(s, prefix, attr, pos) ==
  scanTagLoop(s, prefix, attr, AttrMatches(s, attr), Occurrences(s, ">"), pos)

\* FindAllSubmatch of  attr(\d+)"  over s.
scanIDs(s, attr) == {AttrValue(s, attr, q) : q \in AttrMatches(s, attr)}

\* xmlEscape: the five characters XML reserves are written as entities.
RECURSIVE xmlEscape(_)
xmlEscape(s) ==
  IF Len(s) = 0 THEN ""
  ELSE LET ch == SubSeq(s, 1, 1)
       IN (IF ch = "&" THEN "&amp;"
           ELSE IF ch = "<" THEN "&lt;"
           ELSE IF ch = ">" THEN "&gt;"
           ELSE IF ch = "\"" THEN "&quot;"
           ELSE IF ch = "'" THEN "&apos;"
           ELSE ch) \o xmlEscape(Tail(s))

(***************************************************************************)
(* UpdateTableCell: the text of one cell is replaced, its cell properties  *)
(* and the properties of its first paragraph are kept.                    *)
(***************************************************************************)

\* The <w:tcPr> block that replaceCellText preserves, "" without one.
cellProperties(tcContent) ==
  LET start == IF Index(tcContent, "<w:tcPr>") >= 0
               THEN Index(tcContent, "<w:tcPr>")
               ELSE Index(tcContent, "<w:tcPr ")
      end == Index(From(tcContent, start), "</w:tcPr>")
  IN IF start < 0 \/ end < 0 THEN ""
     ELSE Slice(tcContent, start, start + end + Len("</w:tcPr>"))

\* The <w:pPr> block of the first paragraph, "" without one.
paragraphProperties(pContent) ==
  LET ppStart == Index(pContent, "<w:pPr>")
      ppEnd == Index(From(pContent, ppStart), "</w:pPr>")
  IN IF ppStart < 0 \/ ppEnd < 0 THEN ""
     ELSE Slice(pContent, ppStart, ppStart + ppEnd + Len("</w:pPr>"))

\* replaceCellText from the first paragraph p of the cell on.
cellRewritten(tcContent, escaped, p) ==
  IF p.err # ""
  THEN (IF Contains(tcContent, "<w:tc ") /\ Index(tcContent, ">") >= 0
        THEN Slice(tcContent, 0, Index(tcContent, ">") + 1)
        ELSE "<w:tc>")
       \o cellProperties(tcContent)
       \o (IF escaped # ""
           THEN "<w:p><w:r><w:t xml:space=\"preserve\">" \o escaped
                \o "</w:t></w:r></w:p>"
           ELSE "<w:p/>")
       \o "</w:tc>"
  ELSE Slice(tcContent, 0, Index(tcContent, ">") + 1)
       \o cellProperties(tcContent)
       \o Slice(tcContent, p.start,
                p.start + Index(From(tcContent, p.start), ">") + 1)
       \o paragraphProperties(Slice(tcContent, p.start, p.end))
       \o (IF escaped # ""
           THEN "<w:r><w:t xml:space=\"preserve\">" \o escaped \o "</w:t></w:r>"
           ELSE "")
       \o "</w:p>" \o "</w:tc>"

replaceCellText(tcContent, value) ==
  cellRewritten(tcContent, xmlEscape(value),
                findNthXMLBlock(tcContent, "w:p", 1))

\* updateTableCellContent from the cell on: the new row.
updateRowCell(trContent, tableIndex, row, col, value, tc) ==
  IF tc.err # ""
  THEN [out |-> "",
        err |-> "table " \o ToStr(tableIndex) \o " row " \o ToStr(row)
                \o " col " \o ToStr(col) \o " not found: " \o tc.err]
  ELSE [out |-> splice(trContent, tc.start, tc.end,
                       replaceCellText(Slice(trContent, tc.start, tc.end),
                                       value)),
        err |-> ""]

\* updateTableCellContent from the row on: the new table.
updateTableRow(tblContent, tableIndex, row, col, value, tr) ==
  IF tr.err # ""
  THEN [out |-> "",
        err |-> "table " \o ToStr(tableIndex) \o " row " \o ToStr(row)
                \o " not found: " \o tr.err]
  ELSE spliceEdited(tblContent, tr,
         updateRowCell(Slice(tblContent, tr.start, tr.end), tableIndex, row,
                       col, value,
                       findNthXMLBlock(Slice(tblContent, tr.start, tr.end),
                                       "w:tc", col)))

\* updateTableCellContent from the table on: the new document.
updateDocTable(raw, tableIndex, row, col, value, tbl) ==
  IF tbl.err # ""
  THEN [out |-> "",
        err |-> "table " \o ToStr(tableIndex) \o " not found: " \o tbl.err]
  ELSE spliceEdited(raw, tbl,
         updateTableRow(Slice(raw, tbl.start, tbl.end), tableIndex, row, col,
                        value,
                        findNthXMLBlock(Slice(raw, tbl.start, tbl.end),
                                        "w:tr", row)))

updateTableCellContent(raw, tableIndex, row, col, value) ==
  updateDocTable(raw, tableIndex, row, col, value,
                 findNthXMLBlock(raw, "w:tbl", tableIndex))

UpdateTableCell(raw, tableIndex, row, col, value) ==
  IF tableIndex < 1 THEN [doc |-> raw, err |-> "tableIndex must be >= 1"]
  ELSE IF row < 1 THEN [doc |-> raw, err |-> "row must be >= 1"]
  ELSE IF col < 1 THEN [doc |-> raw, err |-> "col must be >= 1"]
  ELSE merged(raw, updateTableCellContent(raw, tableIndex, row, col, value))

(***************************************************************************)
(* AnchorResolver: findParagraphRangeByAnchor.  The text of a paragraph is *)
(* the concatenation, in document order, of the contents of its w:t        *)
(* elements; the first paragraph whose text contains the anchor is         *)
(* returned as a span.                                                     *)
(***************************************************************************)

\* The offset of the first  <tag>  or  <tag ...  of s at or after pos, or -1.
nextOpen(s, tag, pos) ==
  minOr({i \in Occurrences(s, "<" \o tag \o ">")
                \cup Occurrences(s, "<" \o tag \o " ") : i >= pos}, -1)

\* The text of the w:t elements of para from offset pos on.
RECURSIVE paragraphText(_, _)
paragraphText(para, pos) ==
  LET t == nextOpen(para, "w:t", pos)
      body == t + Index(From(para, t), ">") + 1
      close == Index(From(para, body), "</w:t>")
  IN IF t < 0 \/ close < 0 THEN ""
     ELSE Slice(para, body, body + close)
          \o paragraphText(para, body + close + Len("</w:t>"))

\* The search over the paragraphs that open at or after pos.
RECURSIVE findParagraphFrom(_, _, _)
findParagraphFrom(docXML, anchor, pos) ==
  LET start == nextOpen(docXML, "w:p", pos)
      close == Index(From(docXML, start), "</w:p>")
      end == start + close + Len("</w:p>")
  IN IF start < 0 \/ close < 0
     THEN [start |-> 0, end |-> 0, err |-> "anchor text not found in document"]
     ELSE IF Contains(paragraphText(Slice(docXML, start, end), 0), anchor)
     THEN [start |-> start, end |-> end, err |-> ""]
     ELSE findParagraphFrom(docXML, anchor, end)

\* Mutation of findParagraphRangeByAnchor: the anchor is first looked for
\* in the markup as it stands.
findParagraphRangeByAnchorRaw(docXML, anchor) ==
  IF Contains(docXML, anchor) THEN findParagraphFrom(docXML, anchor, 0)
  ELSE [start |-> 0, end |-> 0, err |-> "anchor text not found in document"]

findParagraphRangeByAnchor(docXML, anchor) ==
  findParagraphFrom(docXML, anchor, 0)

(***************************************************************************)
(* InsertionPlanner: the four symbolic positions.                          *)
(***************************************************************************)

PositionBeginning == "PositionBeginning"

PositionEnd == "PositionEnd"

PositionAfterText == "PositionAfterText"

PositionBeforeText == "PositionBeforeText"

\* A value of InsertPosition that is none of the four.
PositionInvalid == "InsertPosition(99)"

\* Immediately after the opening tag of the body.
insertAtBodyStart(raw, content) ==
  LET b == nextOpen(raw, "w:body", 0)
      gt == Index(From(raw, b), ">")
  IN IF b < 0 \/ gt < 0
     THEN [out |-> "", err |-> "could not find <w:body> tag"]
     ELSE [out |-> insertAt(raw, b + gt + 1, content), err |-> ""]

\* Mutation of bodyEndOffset: the literal end of the body.
bodyEndOffsetLiteral(raw) == Index(raw, "</w:body>")

\* Immediately before the closing tag of the body, or before the final
\* section properties when there are some; -1 without a closing tag.
bodyEndOffset(raw) ==
  LET bodyEnd == Index(raw, "</w:body>")
      sectPr == LastIndex(Slice(raw, 0, bodyEnd), "<w:sectPr")
  IN IF bodyEnd < 0 THEN -1 ELSE IF sectPr >= 0 THEN sectPr ELSE bodyEnd

insertAtBodyEnd(raw, content) ==
  LET pos == bodyEndOffset(raw)
  IN IF pos < 0 THEN [out |-> "", err |-> "could not find </w:body> tag"]
     ELSE [out |-> insertAt(raw, pos, content), err |-> ""]

insertAfterText(raw, content, anchor) ==
  LET r == findParagraphRangeByAnchor(raw, anchor)
  IN IF r.err # "" THEN [out |-> "", err |-> r.err]
     ELSE [out |-> insertAt(raw, r.end, content), err |-> ""]

insertBeforeText(raw, content, anchor) ==
  LET r == findParagraphRangeByAnchor(raw, anchor)
  IN IF r.err # "" THEN [out |-> "", err |-> r.err]
     ELSE [out |-> insertAt(raw, r.start, content), err |-> ""]

\* The switch on the position, as insertChartDrawing and the other features
\* write it.
insertAtPosition(raw, content, position, anchor) ==
  IF position = PositionBeginning THEN insertAtBodyStart(raw, content)
  ELSE IF position = PositionEnd THEN insertAtBodyEnd(raw, content)
  ELSE IF position = PositionAfterText
  THEN IF anchor = ""
       THEN [out |-> "", err |-> "anchor text required for PositionAfterText"]
       ELSE insertAfterText(raw, content, anchor)
  ELSE IF position = PositionBeforeText
  THEN IF anchor = ""
       THEN [out |-> "", err |-> "anchor text required for PositionBeforeText"]
       ELSE insertBeforeText(raw, content, anchor)
  ELSE [out |-> "", err |-> "invalid insert position"]

\* insertParagraphAtPosition(docXML, paraXML, ParagraphOptions{Position, Anchor})
insertParagraphAtPosition(docXML, paraXML, position, anchor) ==
  insertAtPosition(docXML, paraXML, position, anchor)

(***************************************************************************)
(* IDAllocator: every allocation rescans the part it is scoped to.         *)
(***************************************************************************)

\* pattern  <w:%s[^>]*w:id="(\d+)"
getNextNoteID(raw, noteType) ==
  maxIDOf(scanTagIDs(raw, "<w:" \o noteType, "w:id=\"", 0)) + 1

\* commentIDPattern  <w:comment[^>]*w:id="(\d+)"
getNextCommentID(raw) ==
  maxIDOf(scanTagIDs(raw, "<w:comment", "w:id=\"", 0)) + 1

\* revisionIDPattern  w:id="(\d+)"
getNextRevisionID(docXML) == maxIDOf(scanIDs(docXML, "w:id=\"")) + 1

\* The next  rIdN  of a .rels file: the highest N of its Id attributes plus 1.
getNextRelIDFromFile(relsXML) ==
  "rId" \o ToStr(maxIDOf(scanIDs(relsXML, "Id=\"rId")) + 1)

getNextDocumentRelId(relsXML) == getNextRelIDFromFile(relsXML)

\* docPrIDPattern  docPr id="(\d+)"  over document.xml
getNextDocPrId(docXML) == maxIDOf(scanIDs(docXML, "docPr id=\"")) + 1

(***************************************************************************)
(* Footnotes, endnotes and comments.  Every helper takes the package p it  *)
(* reads and returns the package it leaves on disk.                        *)
(***************************************************************************)

OfficeDocumentNS ==
  "http://schemas.openxmlformats.org/officeDocument/2006/relationships"

WordMLNS == "http://schemas.openxmlformats.org/wordprocessingml/2006/main"

XMLDecl == "<?xml version=\"1.0\" encoding=\"UTF-8\" standalone=\"yes\"?>"

\* time.Now().UTC().Format(time.RFC3339): the clock is an input.
Now == "2026-01-01T00:00:00Z"

\* addNoteRelationship without its "already exists" test.
addNoteRelationshipAlways(p, filename, relType) ==
  [p EXCEPT !.rels =
     Replace1(p.rels, "</Relationships>",
              "<Relationship Id=\"" \o getNextRelIDFromFile(p.rels)
              \o "\" Type=\"" \o OfficeDocumentNS \o "/" \o relType
              \o "\" Target=\"" \o filename \o "\"/>" \o "</Relationships>")]

addNoteRelationship(p, filename, relType) ==
  IF Contains(p.rels, filename) THEN p
  ELSE LET relID == getNextRelIDFromFile(p.rels)
           newRel == "<Relationship Id=\"" \o relID \o "\" Type=\""
                     \o OfficeDocumentNS \o "/" \o relType \o "\" Target=\""
                     \o filename \o "\"/>"
       IN [p EXCEPT !.rels = Replace1(p.rels, "</Relationships>",
                                      newRel \o "</Relationships>")]

addNoteContentType(p, filename, noteType) ==
  IF Contains(p.ctypes, filename) THEN p
  ELSE LET contentType ==
             "application/vnd.openxmlformats-officedocument.wordprocessingml."
             \o noteType \o "+xml"
           override == "<Override PartName=\"/word/" \o filename
                       \o "\" ContentType=\"" \o contentType \o "\"/>"
       IN [p EXCEPT !.ctypes = Replace1(p.ctypes, "</Types>",
                                        override \o "</Types>")]

generateInitialFootnotesXML ==
  XMLDecl \o "\n"
  \o "<w:footnotes xmlns:w=\"" \o WordMLNS \o "\" "
  \o "xmlns:r=\"" \o OfficeDocumentNS \o "\">" \o "\n"
  \o "<w:footnote w:type=\"separator\" w:id=\"-1\">"
  \o "<w:p><w:pPr><w:spacing w:after=\"0\" w:line=\"240\" w:lineRule=\"auto\"/></w:pPr>"
  \o "<w:r><w:separator/></w:r></w:p>"
  \o "</w:footnote>" \o "\n"
  \o "<w:footnote w:type=\"continuationSeparator\" w:id=\"0\">"
  \o "<w:p><w:pPr><w:spacing w:after=\"0\" w:line=\"240\" w:lineRule=\"auto\"/></w:pPr>"
  \o "<w:r><w:continuationSeparator/></w:r></w:p>"
  \o "</w:footnote>" \o "\n"
  \o "</w:footnotes>"

generateInitialEndnotesXML ==
  XMLDecl \o "\n"
  \o "<w:endnotes xmlns:w=\"" \o WordMLNS \o "\" "
  \o "xmlns:r=\"" \o OfficeDocumentNS \o "\">" \o "\n"
  \o "<w:endnote w:type=\"separator\" w:id=\"-1\">"
  \o "<w:p><w:pPr><w:spacing w:after=\"0\" w:line=\"240\" w:lineRule=\"auto\"/></w:pPr>"
  \o "<w:r><w:separator/></w:r></w:p>"
  \o "</w:endnote>" \o "\n"
  \o "<w:endnote w:type=\"continuationSeparator\" w:id=\"0\">"
  \o "<w:p><w:pPr><w:spacing w:after=\"0\" w:line=\"240\" w:lineRule=\"auto\"/></w:pPr>"
  \o "<w:r><w:continuationSeparator/></w:r></w:p>"
  \o "</w:endnote>" \o "\n"
  \o "</w:endnotes>"

generateInitialCommentsXML ==
  XMLDecl \o "\n"
  \o "<w:comments xmlns:w=\"" \o WordMLNS \o "\" "
  \o "xmlns:r=\"" \o OfficeDocumentNS \o "\">" \o "\n"
  \o "</w:comments>"

\* What a public operation leaves: the package, the error it returned, and
\* what it drew while running: ids as <<namespace, id>>, and for a chart its
\* index and relationship id.
Result(p, e, ids) ==
  [p |-> p, err |-> e, ids |-> ids, chartIndex |-> 0, relID |-> ""]

\* The result of the last step r of an operation, its error wrapped.
Wrapped(r, prefix, ids) ==
  Result(r.p, IF r.err # "" THEN prefix \o r.err ELSE "", ids)

ensureFootnotesXML(p) ==
  IF "word/footnotes.xml" \notin p.files
  THEN [p |-> addNoteContentType(
                addNoteRelationship(
                  [p EXCEPT !.files = @ \cup {"word/footnotes.xml"},
                            !.footnotes = generateInitialFootnotesXML],
                  "footnotes.xml", "footnotes"),
                "footnotes.xml", "footnotes"),
        id |-> 1]
  ELSE [p |-> p, id |-> getNextNoteID(p.footnotes, "footnote")]

ensureEndnotesXML(p) ==
  IF "word/endnotes.xml" \notin p.files
  THEN [p |-> addNoteContentType(
                addNoteRelationship(
                  [p EXCEPT !.files = @ \cup {"word/endnotes.xml"},
                            !.endnotes = generateInitialEndnotesXML],
                  "endnotes.xml", "endnotes"),
                "endnotes.xml", "endnotes"),
        id |-> 1]
  ELSE [p |-> p, id |-> getNextNoteID(p.endnotes, "endnote")]

ensureCommentsXML(p) ==
  IF "word/comments.xml" \notin p.files
  THEN [p |-> addNoteContentType(
                addNoteRelationship(
                  [p EXCEPT !.files = @ \cup {"word/comments.xml"},
                            !.comments = generateInitialCommentsXML],
                  "comments.xml", "comments"),
                "comments.xml", "comments"),
        id |-> 1]
  ELSE [p |-> p, id |-> getNextCommentID(p.comments)]

generateFootnoteEntry(id, text) ==
  "<w:footnote w:id=\"" \o ToStr(id) \o "\">"
  \o "<w:p>"
  \o "<w:pPr><w:pStyle w:val=\"FootnoteText\"/></w:pPr>"
  \o "<w:r>"
  \o "<w:rPr><w:rStyle w:val=\"FootnoteReference\"/></w:rPr>"
  \o "<w:footnoteRef/>"
  \o "</w:r>"
  \o "<w:r>"
  \o "<w:t xml:space=\"preserve\"> " \o xmlEscape(text) \o "</w:t>"
  \o "</w:r>"
  \o "</w:p>"
  \o "</w:footnote>"

generateEndnoteEntry(id, text) ==
  "<w:endnote w:id=\"" \o ToStr(id) \o "\">"
  \o "<w:p>"
  \o "<w:pPr><w:pStyle w:val=\"EndnoteText\"/></w:pPr>"
  \o "<w:r>"
  \o "<w:rPr><w:rStyle w:val=\"EndnoteReference\"/></w:rPr>"
  \o "<w:endnoteRef/>"
  \o "</w:r>"
  \o "<w:r>"
  \o "<w:t xml:space=\"preserve\"> " \o xmlEscape(text) \o "</w:t>"
  \o "</w:r>"
  \o "</w:p>"
  \o "</w:endnote>"

generateCommentEntry(id, author, initials, text) ==
  "<w:comment w:id=\"" \o ToStr(id) \o "\" w:author=\"" \o xmlEscape(author)
  \o "\" w:date=\"" \o Now \o "\" w:initials=\"" \o xmlEscape(initials) \o "\">"
  \o "<w:p>"
  \o "<w:pPr><w:pStyle w:val=\"CommentText\"/></w:pPr>"
  \o "<w:r>"
  \o "<w:rPr><w:rStyle w:val=\"CommentReference\"/></w:rPr>"
  \o "<w:annotationRef/>"
  \o "</w:r>"
  \o "<w:r>"
  \o "<w:t xml:space=\"preserve\"> " \o xmlEscape(text) \o "</w:t>"
  \o "</w:r>"
  \o "</w:p>"
  \o "</w:comment>"

\* raw[:closeIdx] + entry + '\n' + raw[closeIdx:], closeIdx the last closeTag
appendEntry(raw, closeTag, entry) ==
  LET closeIdx == LastIndex(raw, closeTag)
  IN IF closeIdx = -1
     THEN [out |-> raw, err |-> "could not find " \o closeTag \o " tag"]
     ELSE [out |-> insertAt(raw, closeIdx, entry \o "\n"), err |-> ""]

addFootnoteContent(p, id, text) ==
  LET r == appendEntry(p.footnotes, "</w:footnotes>",
                       generateFootnoteEntry(id, text))
  IN [p |-> [p EXCEPT !.footnotes = r.out], err |-> r.err]

addEndnoteContent(p, id, text) ==
  LET r == appendEntry(p.endnotes, "</w:endnotes>",
                       generateEndnoteEntry(id, text))
  IN [p |-> [p EXCEPT !.endnotes = r.out], err |-> r.err]

addCommentContent(p, id, author, initials, text) ==
  LET r == appendEntry(p.comments, "</w:comments>",
                       generateCommentEntry(id, author, initials, text))
  IN [p |-> [p EXCEPT !.comments = r.out], err |-> r.err]

insertNoteReference(p, anchor, noteID, noteType) ==
  LET r == findParagraphRangeByAnchor(p.doc, anchor)
      refXML ==
        IF noteType = "footnote"
        THEN "<w:r><w:rPr><w:rStyle w:val=\"FootnoteReference\"/></w:rPr>"
             \o "<w:footnoteReference w:id=\"" \o ToStr(noteID) \o "\"/></w:r>"
        ELSE "<w:r><w:rPr><w:rStyle w:val=\"EndnoteReference\"/></w:rPr>"
             \o "<w:endnoteReference w:id=\"" \o ToStr(noteID) \o "\"/></w:r>"
  IN IF r.err # "" THEN [p |-> p, err |-> "find anchor: " \o r.err]
     ELSE [p |-> [p EXCEPT !.doc =
                    insertAt(p.doc, r.end - Len("</w:p>"), refXML)],
           err |-> ""]

\* insertCommentMarkers from the paragraph r of the anchor on.
commentMarkersAt(p, commentID, r) ==
  LET raw == p.doc
      pContent == Slice(raw, r.start, r.end)
      pprEnd == Index(pContent, "</w:pPr>")
      pOpenEnd == Index(pContent, ">")
      insertStartPos ==
        r.start + (IF pprEnd >= 0 THEN pprEnd + Len("</w:pPr>")
                   ELSE pOpenEnd + 1)
      insertEndPos == r.end - Len("</w:p>")
  IN IF r.err # "" THEN [p |-> p, err |-> "find anchor: " \o r.err]
     ELSE IF pprEnd < 0 /\ pOpenEnd < 0
     THEN [p |-> p, err |-> "invalid paragraph XML"]
     ELSE [p |-> [p EXCEPT !.doc =
                    Slice(raw, 0, insertStartPos)
                    \o "<w:commentRangeStart w:id=\"" \o ToStr(commentID)
                    \o "\"/>"
                    \o Slice(raw, insertStartPos, insertEndPos)
                    \o "<w:commentRangeEnd w:id=\"" \o ToStr(commentID)
                    \o "\"/>"
                    \o "<w:r><w:rPr><w:rStyle w:val=\"CommentReference\"/></w:rPr>"
                    \o "<w:commentReference w:id=\"" \o ToStr(commentID)
                    \o "\"/></w:r>"
                    \o From(raw, insertEndPos)],
           err |-> ""]

insertCommentMarkers(p, anchor, commentID) ==
  commentMarkersAt(p, commentID, findParagraphRangeByAnchor(p.doc, anchor))

\* InsertFootnote once the content was added, or was not.
footnoteAdded(a, id, anchor) ==
  IF a.err # ""
  THEN Result(a.p, "add footnote content: " \o a.err, {<<"footnote", id>>})
  ELSE Wrapped(insertNoteReference(a.p, anchor, id, "footnote"),
               "insert footnote reference: ", {<<"footnote", id>>})

InsertFootnote(p, text, anchor) ==
  IF text = "" THEN Result(p, "footnote text cannot be empty", {})
  ELSE IF anchor = "" THEN Result(p, "anchor text cannot be empty", {})
  ELSE LET e == ensureFootnotesXML(p)
       IN footnoteAdded(addFootnoteContent(e.p, e.id, text), e.id, anchor)

\* InsertEndnote once the content was added, or was not.
endnoteAdded(a, id, anchor) ==
  IF a.err # ""
  THEN Result(a.p, "add endnote content: " \o a.err, {<<"endnote", id>>})
  ELSE Wrapped(insertNoteReference(a.p, anchor, id, "endnote"),
               "insert endnote reference: ", {<<"endnote", id>>})

InsertEndnote(p, text, anchor) ==
  IF text = "" THEN Result(p, "endnote text cannot be empty", {})
  ELSE IF anchor = "" THEN Result(p, "anchor text cannot be empty", {})
  ELSE LET e == ensureEndnotesXML(p)
       IN endnoteAdded(addEndnoteContent(e.p, e.id, text), e.id, anchor)

\* InsertComment once the content was added, or was not.
commentAdded(a, id, anchor) ==
  IF a.err # ""
  THEN Result(a.p, "add comment content: " \o a.err, {<<"comment", id>>})
  ELSE Wrapped(insertCommentMarkers(a.p, anchor, id),
               "insert comment markers: ", {<<"comment", id>>})

\* The characters U+0080..U+00BF and U+00C0..U+00FF: in UTF-8 the first byte
\* of each of the former is C2, of each of the latter C3.
Latin1Low == " ¡¢£¤¥¦§¨©ª«¬­®¯°±²³´µ¶·¸¹º»¼½¾¿"

Latin1High == "ÀÁÂÃÄÅÆÇÈÉÊËÌÍÎÏÐÑÒÓÔÕÖ×ØÙÚÛÜÝÞßàáâãäåæçèéêëìíîïðñòóôõö÷øùúûüýþÿ"

\* string(s[0]) for a non-empty s of ASCII characters and of those above: the
\* first byte of s read as a code point.
firstByte(s) ==
  IF Contains(Latin1High, SubSeq(s, 1, 1)) THEN "Ã"
  ELSE IF Contains(Latin1Low, SubSeq(s, 1, 1)) THEN "Â"
  ELSE SubSeq(s, 1, 1)

InsertComment(p, text, author, initials, anchor) ==
  IF text = "" THEN Result(p, "comment text cannot be empty", {})
  ELSE IF anchor = "" THEN Result(p, "anchor text cannot be empty", {})
  ELSE LET author1 == IF author = "" THEN "Author" ELSE author
           initials1 == IF initials = "" /\ Len(author1) > 0
                        THEN firstByte(author1) ELSE initials
           e == ensureCommentsXML(p)
       IN commentAdded(addCommentContent(e.p, e.id, author1, initials1, text),
                       e.id, anchor)

(***************************************************************************)
(* Styles: styles.go.                                                      *)
(***************************************************************************)

StyleTypeParagraph == "paragraph"

\* The alignment the style tests set.
ParagraphAlignCenter == "center"

\* paragraphAlignmentValue, for an alignment left unset and for the centred
\* one: the value of w:jc, and whether there is one.
paragraphAlignmentValue(alignment) ==
  IF alignment = ParagraphAlignCenter
  THEN [value |-> "center", ok |-> TRUE]
  ELSE [value |-> "", ok |-> FALSE]

\* normalizeHexColor, for a colour of six upper case hexadecimal digits.
normalizeHexColor(color) == color

\* The colour normalised, or as given when normalizeHexColor returns "".
normalizedColor(color) ==
  IF normalizeHexColor(color) # "" THEN normalizeHexColor(color) ELSE color

\* fmt.Sprintf("%d", n)
IntStr(n) == IF n < 0 THEN "-" \o ToStr(0 - n) ELSE ToStr(n)

\* The w:spacing element of a style.
styleSpacing(def) ==
  IF def.SpaceBefore > 0 \/ def.SpaceAfter > 0 \/ def.LineSpacing > 0
  THEN "<w:spacing"
       \o (IF def.SpaceBefore > 0
           THEN " w:before=\"" \o IntStr(def.SpaceBefore) \o "\"" ELSE "")
       \o (IF def.SpaceAfter > 0
           THEN " w:after=\"" \o IntStr(def.SpaceAfter) \o "\"" ELSE "")
       \o (IF def.LineSpacing > 0
           THEN " w:line=\"" \o IntStr(def.LineSpacing)
                \o "\" w:lineRule=\"auto\""
           ELSE "")
       \o "/>"
  ELSE ""

\* The w:ind element of a style.
styleIndent(def) ==
  IF def.IndentLeft > 0 \/ def.IndentRight > 0 \/ def.IndentFirst # 0
  THEN "<w:ind"
       \o (IF def.IndentLeft > 0
           THEN " w:left=\"" \o IntStr(def.IndentLeft) \o "\"" ELSE "")
       \o (IF def.IndentRight > 0
           THEN " w:right=\"" \o IntStr(def.IndentRight) \o "\"" ELSE "")
       \o (IF def.IndentFirst # 0
           THEN " w:firstLine=\"" \o IntStr(def.IndentFirst) \o "\"" ELSE "")
       \o "/>"
  ELSE ""

generateStyleParagraphProps(def) ==
  LET inner == (IF paragraphAlignmentValue(def.Alignment).ok
                THEN "<w:jc w:val=\""
                     \o paragraphAlignmentValue(def.Alignment).value \o "\"/>"
                ELSE "")
               \o styleSpacing(def)
               \o styleIndent(def)
               \o (IF def.KeepNext THEN "<w:keepNext/>" ELSE "")
               \o (IF def.KeepLines THEN "<w:keepLines/>" ELSE "")
               \o (IF def.PageBreakBef THEN "<w:pageBreakBefore/>" ELSE "")
               \o (IF def.OutlineLevel > 0 /\ def.OutlineLevel <= 9
                   THEN "<w:outlineLvl w:val=\"" \o ToStr(def.OutlineLevel - 1)
                        \o "\"/>"
                   ELSE "")
  IN IF inner # "" THEN "<w:pPr>" \o inner \o "</w:pPr>" ELSE ""

generateStyleRunProps(def) ==
  LET inner == (IF def.FontFamily # ""
                THEN "<w:rFonts w:ascii=\"" \o xmlEscape(def.FontFamily)
                     \o "\" w:hAnsi=\"" \o xmlEscape(def.FontFamily)
                     \o "\" w:cs=\"" \o xmlEscape(def.FontFamily) \o "\"/>"
                ELSE "")
               \o (IF def.Bold THEN "<w:b/>" ELSE "")
               \o (IF def.Italic THEN "<w:i/>" ELSE "")
               \o (IF def.Underline THEN "<w:u w:val=\"single\"/>" ELSE "")
               \o (IF def.Strikethrough THEN "<w:strike/>" ELSE "")
               \o (IF def.AllCaps THEN "<w:caps/>" ELSE "")
               \o (IF def.SmallCaps THEN "<w:smallCaps/>" ELSE "")
               \o (IF def.FontSize > 0
                   THEN "<w:sz w:val=\"" \o ToStr(def.FontSize) \o "\"/>"
                        \o "<w:szCs w:val=\"" \o ToStr(def.FontSize) \o "\"/>"
                   ELSE "")
               \o (IF def.Color # ""
                   THEN "<w:color w:val=\""
                        \o xmlEscape(normalizedColor(def.Color)) \o "\"/>"
                   ELSE "")
  IN IF inner # "" THEN "<w:rPr>" \o inner \o "</w:rPr>" ELSE ""

generateStyleXML(def) ==
  "<w:style w:type=\"" \o xmlEscape(def.Type) \o "\" w:styleId=\""
  \o xmlEscape(def.ID) \o "\">"
  \o "<w:name w:val=\"" \o xmlEscape(def.Name) \o "\"/>"
  \o (IF def.BasedOn # ""
      THEN "<w:basedOn w:val=\"" \o xmlEscape(def.BasedOn) \o "\"/>" ELSE "")
  \o (IF def.NextStyle # ""
      THEN "<w:next w:val=\"" \o xmlEscape(def.NextStyle) \o "\"/>" ELSE "")
  \o (IF def.Type = StyleTypeParagraph
      THEN generateStyleParagraphProps(def) ELSE "")
  \o generateStyleRunProps(def)
  \o "</w:style>"

generateStylesDocument(styleXML) ==
  XMLDecl \o "\n"
  \o "<w:styles xmlns:w=\"" \o WordMLNS \o "\">" \o "\n"
  \o styleXML \o "\n"
  \o "</w:styles>"

injectStyle(stylesXML, styleXML) ==
  LET closeIdx == LastIndex(stylesXML, "</w:styles>")
  IN IF closeIdx = -1
     THEN [out |-> "", err |-> "could not find </w:styles> closing tag"]
     ELSE [out |-> Slice(stylesXML, 0, closeIdx) \o styleXML \o "\n"
                   \o From(stylesXML, closeIdx),
           err |-> ""]

ensureStylesRelationship(p) ==
  [p EXCEPT
     !.rels =
       IF ~Contains(@, "styles.xml")
       THEN Replace1(@, "</Relationships>",
                     "<Relationship Id=\"" \o getNextRelIDFromFile(@)
                     \o "\" Type=\"" \o OfficeDocumentNS \o "/styles\" "
                     \o "Target=\"styles.xml\"/>" \o "</Relationships>")
       ELSE @,
     !.ctypes =
       IF ~Contains(@, "styles.xml")
       THEN Replace1(@, "</Types>",
                     "<Override PartName=\"/word/styles.xml\" ContentType=\""
                     \o "application/vnd.openxmlformats-officedocument."
                     \o "wordprocessingml.styles+xml\"/>" \o "</Types>")
       ELSE @]

\* def.Name and def.Type take their defaults from def.ID and the paragraph
\* type.
styleDefaults(def) ==
  [def EXCEPT !.Name = IF @ = "" THEN def.ID ELSE @,
              !.Type = IF @ = "" THEN StyleTypeParagraph ELSE @]

\* AddStyle from the style XML on: styles.xml is created and registered, or
\* the style is injected into the one present.
styleAdded(p, styleXML, injected) ==
  IF "word/styles.xml" \notin p.files
  THEN Result(ensureStylesRelationship(
                [p EXCEPT !.files = @ \cup {"word/styles.xml"},
                          !.styles = generateStylesDocument(styleXML)]),
              "", {})
  ELSE IF injected.err # ""
  THEN Result(p, "inject style: " \o injected.err, {})
  ELSE Result([p EXCEPT !.styles = injected.out], "", {})

AddStyle(p, def) ==
  IF def.ID = "" THEN Result(p, "style ID cannot be empty", {})
  ELSE styleAdded(p, generateStyleXML(styleDefaults(def)),
                  injectStyle(p.styles,
                              generateStyleXML(styleDefaults(def))))

\* AddStyles: the definitions are added in order; the first error ends the
\* batch with the styles before it written.
RECURSIVE addStylesFrom(_, _, _)
addStyleOf(r, defs, i) ==
  IF r.err # ""
  THEN Result(r.p, "add style " \o ToStr(i) \o " (" \o defs[i + 1].ID
                   \o "): " \o r.err, {})
  ELSE addStylesFrom(r.p, defs, i + 1)

addStylesFrom(p, defs, i) ==
  IF i >= Len(defs) THEN Result(p, "", {})
  ELSE addStyleOf(AddStyle(p, defs[i + 1]), defs, i)

AddStyles(p, defs) == addStylesFrom(p, defs, 0)

(***************************************************************************)
(* RevisionEditor: trackchanges.go.                                        *)
(***************************************************************************)

\* strings.ReplaceAll
RECURSIVE ReplaceAll(_, _, _)
ReplaceAll(s, old, new) ==
  LET i == Index(s, old)
  IN IF i < 0 THEN s
     ELSE Slice(s, 0, i) \o new \o ReplaceAll(From(s, i + Len(old)), old, new)

StyleNormal == "Normal"

\* writeRunTextWithControls, for a text without tabs or line breaks.
writeRunTextWithControls(text) ==
  "<w:t xml:space=\"preserve\">" \o xmlEscape(text) \o "</w:t>"

generateTrackedInsertXMLWithID(opts, startID) ==
  "<w:p>"
  \o "<w:pPr>"
  \o (IF opts.Style # StyleNormal
      THEN "<w:pStyle w:val=\"" \o xmlEscape(opts.Style) \o "\"/>" ELSE "")
  \o "<w:rPr><w:ins w:id=\"" \o ToStr(startID) \o "\" w:author=\""
  \o xmlEscape(opts.Author) \o "\" w:date=\"" \o opts.Date \o "\"/></w:rPr>"
  \o "</w:pPr>"
  \o "<w:ins w:id=\"" \o ToStr(startID + 1) \o "\" w:author=\""
  \o xmlEscape(opts.Author) \o "\" w:date=\"" \o opts.Date \o "\">"
  \o "<w:r>"
  \o (IF opts.Bold \/ opts.Italic \/ opts.Underline
      THEN "<w:rPr>"
           \o (IF opts.Bold THEN "<w:b/>" ELSE "")
           \o (IF opts.Italic THEN "<w:i/>" ELSE "")
           \o (IF opts.Underline THEN "<w:u w:val=\"single\"/>" ELSE "")
           \o "</w:rPr>"
      ELSE "")
  \o writeRunTextWithControls(opts.Text)
  \o "</w:r>"
  \o "</w:ins>"
  \o "</w:p>"

insertTrackedAtPosition(docXML, trackedXML, opts) ==
  insertParagraphAtPosition(docXML, trackedXML, opts.Position, opts.Anchor)

\* InsertTrackedText once the paragraph was inserted, or was not.
trackedInserted(p, updated, startID) ==
  IF updated.err # ""
  THEN Result(p, "insert tracked text: " \o updated.err,
              {<<"revision", startID>>, <<"revision", startID + 1>>})
  ELSE Result([p EXCEPT !.doc = updated.out], "",
              {<<"revision", startID>>, <<"revision", startID + 1>>})

InsertTrackedText(p, options) ==
  IF options.Text = "" THEN Result(p, "text cannot be empty", {})
  ELSE LET opts == [options EXCEPT
                      !.Author = IF @ = "" THEN "Author" ELSE @,
                      !.Date = IF @ = "" THEN Now ELSE @,
                      !.Style = IF @ = "" THEN StyleNormal ELSE @]
           startID == getNextRevisionID(p.doc)
       IN trackedInserted(p,
            insertTrackedAtPosition(
              p.doc, generateTrackedInsertXMLWithID(opts, startID), opts),
            startID)

\* The loop of convertRunsToDeletedWithID from offset pos with the next id
\* delID: the rewritten rest of the paragraph and the id after the last used.
RECURSIVE convertRunsLoop(_, _, _, _, _)
convertRunsLoop(paraXML, author, dateStr, delID, pos) ==
  IF pos >= Len(paraXML) THEN [out |-> "", next |-> delID]
  ELSE
  LET nextRun == nextOpen(paraXML, "w:r", pos)
      runEnd0 == Index(From(paraXML, nextRun), "</w:r>")
      runEnd == runEnd0 + nextRun + Len("</w:r>")
      runContent == Slice(paraXML, nextRun, runEnd)
      delRun ==
        ReplaceAll(
          ReplaceAll(
            ReplaceAll(runContent, "<w:t>", "<w:delText xml:space=\"preserve\">"),
            "<w:t ", "<w:delText "),
          "</w:t>", "</w:delText>")
      hasText == Contains(runContent, "<w:t")
      rest == convertRunsLoop(paraXML, author, dateStr,
                              IF hasText THEN delID + 1 ELSE delID, runEnd)
  IN IF nextRun < 0 THEN [out |-> From(paraXML, pos), next |-> delID]
     ELSE IF runEnd0 < 0 THEN [out |-> From(paraXML, pos), next |-> delID]
     ELSE [out |-> Slice(paraXML, pos, nextRun)
                   \o (IF hasText
                       THEN "<w:del w:id=\"" \o ToStr(delID) \o "\" w:author=\""
                            \o xmlEscape(author) \o "\" w:date=\"" \o dateStr
                            \o "\">" \o delRun \o "</w:del>"
                       ELSE runContent)
                   \o rest.out,
           next |-> rest.next]

convertRunsToDeletedWithID(paraXML, author, dateStr, startID) ==
  convertRunsLoop(paraXML, author, dateStr, startID, 0)

\* markParagraphAsDeleted from the paragraph r of the anchor on.
paragraphFound(docXML, opts, startID, r) ==
  LET modified == convertRunsToDeletedWithID(Slice(docXML, r.start, r.end),
                                             opts.Author, opts.Date, startID)
  IN IF r.err # ""
     THEN [out |-> "", err |-> "find anchor: " \o r.err, next |-> startID]
     ELSE [out |-> splice(docXML, r.start, r.end, modified.out), err |-> "",
           next |-> modified.next]

markParagraphAsDeleted(docXML, opts, startID) ==
  paragraphFound(docXML, opts, startID,
                 findParagraphRangeByAnchor(docXML, opts.Anchor))

\* DeleteTrackedText once the paragraph was marked, or was not.
deletionMarked(p, updated, startID) ==
  IF updated.err # ""
  THEN Result(p, "mark tracked deletion: " \o updated.err, {})
  ELSE Result([p EXCEPT !.doc = updated.out], "",
              {<<"revision", i>> : i \in startID..(updated.next - 1)})

DeleteTrackedText(p, options) ==
  IF options.Anchor = "" THEN Result(p, "anchor text cannot be empty", {})
  ELSE LET opts == [options EXCEPT
                      !.Author = IF @ = "" THEN "Author" ELSE @,
                      !.Date = IF @ = "" THEN Now ELSE @]
           startID == getNextRevisionID(p.doc)
       IN deletionMarked(p, markParagraphAsDeleted(p.doc, opts, startID),
                         startID)

(***************************************************************************)
(* Charts: InsertChart and its helpers.                                    *)
(***************************************************************************)

ChartAnchorIDBase == 805306368

ChartEditIDBase == 218103808

ChartIDIncrement == 4096

DefaultChartWidth == 6099523

DefaultChartHeight == 3340467

ChartContentType ==
  "application/vnd.openxmlformats-officedocument.drawingml.chart+xml"

HexDigits == "0123456789ABCDEF"

RECURSIVE ToHex(_)
ToHex(n) ==
  IF n < 16 THEN SubSeq(HexDigits, n + 1, n + 1)
  ELSE ToHex(n \div 16) \o SubSeq(HexDigits, (n % 16) + 1, (n % 16) + 1)

\* fmt.Sprintf("%04X", n) for n < 65536
Hex04(n) ==
  LET h == ToHex(n)
  IN SubSeq("0000", 1, 4 - Len(h)) \o h

\* fmt.Sprintf("%08X", base + uint32(chartIndex)*ChartIDIncrement): the sum
\* wraps at 32 bits, so it is computed on its two 16-bit halves.
chartDrawingID(base, chartIndex) ==
  LET perHalf == 65536 \div ChartIDIncrement
      lo == (base % 65536) + (chartIndex % perHalf) * ChartIDIncrement
      hi == (base \div 65536) + (chartIndex \div perHalf) + (lo \div 65536)
  IN Hex04(hi % 65536) \o Hex04(lo % 65536)

\* strings.TrimSpace(name) == ""
\* The white space of unicode.IsSpace up to U+00FF: tab, line feed, vertical
\* tab, form feed, carriage return, space, U+0085 and U+00A0.
WhiteSpace == {"\t", "\n", "", "\f", "\r", " ", "", " "}

isBlank(name) ==
  \A i \in 1..Len(name) : SubSeq(name, i, i) \in WhiteSpace

\* The loop over opts.Series from index i (0-based, as the messages print it).
RECURSIVE validateSeries(_, _)
validateSeries(opts, i) ==
  IF i >= Len(opts.Series) THEN ""
  ELSE LET series == opts.Series[i + 1]
       IN IF isBlank(series.Name)
          THEN "series[" \o ToStr(i) \o "] name cannot be empty"
          ELSE IF Len(series.Values) # Len(opts.Categories)
          THEN "series[" \o ToStr(i) \o "] values length ("
               \o ToStr(Len(series.Values)) \o ") must match categories length ("
               \o ToStr(Len(opts.Categories)) \o ")"
          ELSE validateSeries(opts, i + 1)

\* A pointer is the empty sequence when nil and holds its value otherwise.
\* The float64 values of an axis are whole numbers here.
validateAxisOptions(name, axis) ==
  IF axis.Min # <<>> /\ axis.Max # <<>> /\ axis.Min[1] >= axis.Max[1]
  THEN name \o ": Min must be less than Max"
  ELSE IF axis.MajorUnit # <<>> /\ axis.MajorUnit[1] <= 0
  THEN name \o ": MajorUnit must be positive"
  ELSE IF axis.MinorUnit # <<>> /\ axis.MinorUnit[1] <= 0
  THEN name \o ": MinorUnit must be positive"
  ELSE IF axis.MajorUnit # <<>> /\ axis.MinorUnit # <<>>
          /\ axis.MinorUnit[1] >= axis.MajorUnit[1]
  THEN name \o ": MinorUnit must be less than MajorUnit"
  ELSE ""

\* validateChartOptions once the series were found valid: the axes, then
\* the bar chart options.
validateAxesAndBars(opts) ==
  IF opts.CategoryAxis # <<>>
     /\ validateAxisOptions("CategoryAxis", opts.CategoryAxis[1]) # ""
  THEN validateAxisOptions("CategoryAxis", opts.CategoryAxis[1])
  ELSE IF opts.ValueAxis # <<>>
          /\ validateAxisOptions("ValueAxis", opts.ValueAxis[1]) # ""
  THEN validateAxisOptions("ValueAxis", opts.ValueAxis[1])
  ELSE IF opts.BarChartOptions # <<>>
          /\ (opts.BarChartOptions[1].GapWidth < 0
              \/ opts.BarChartOptions[1].GapWidth > 500)
  THEN "BarChartOptions.GapWidth must be between 0 and 500"
  ELSE IF opts.BarChartOptions # <<>>
          /\ (opts.BarChartOptions[1].Overlap < -100
              \/ opts.BarChartOptions[1].Overlap > 100)
  THEN "BarChartOptions.Overlap must be between -100 and 100"
  ELSE ""

validateChartOptions(opts) ==
  IF Len(opts.Categories) = 0 THEN "categories cannot be empty"
  ELSE IF Len(opts.Series) = 0 THEN "at least one series is required"
  ELSE IF validateSeries(opts, 0) # "" THEN validateSeries(opts, 0)
  ELSE validateAxesAndBars(opts)

applyChartDefaults(opts) ==
  [opts EXCEPT !.Width = IF @ = 0 THEN DefaultChartWidth ELSE @,
               !.Height = IF @ = 0 THEN DefaultChartHeight ELSE @]

\* The names of the entries of the directory dir (files and directories).
ReadDir(fs, dir) ==
  {LET rest == From(f, Len(dir) + 1)
       slash == Index(rest, "/")
   IN IF slash < 0 THEN rest ELSE Slice(rest, 0, slash) :
     f \in {g \in fs : HasPrefix(g, dir \o "/")}}

\* chartFilePattern  ^chart(\d+)\.xml$ : the captured index, or -1.
chartFileIndex(name) ==
  LET n == DigitRunLen(name, Len("chart"))
  IN IF HasPrefix(name, "chart") /\ n >= 1
        /\ From(name, Len("chart") + n) = ".xml"
     THEN Atoi(Slice(name, Len("chart"), Len("chart") + n))
     ELSE -1

\* Mutation of findNextChartIndex: the chart files are counted.
findNextChartIndexCount(fs) ==
  Cardinality({e \in ReadDir(fs, "word/charts") : chartFileIndex(e) >= 0}) + 1

findNextChartIndex(fs) ==
  maxIDOf({chartFileIndex(e) : e \in ReadDir(fs, "word/charts")} \ {-1}) + 1

\* Mutation of chartRelTarget: every chart relationship targets chart 1.
chartRelTargetFirst(chartIndex) == "charts/chart1.xml"

\* Target="charts/chart%d.xml"
chartRelTarget(chartIndex) == "charts/chart" \o ToStr(chartIndex) \o ".xml"

addChartRelationship(p, chartIndex) ==
  LET nextRelId == getNextDocumentRelId(p.rels)
      pos == LastIndex(p.rels, "</Relationships>")
  IN IF pos = -1
     THEN [p |-> p, relID |-> "",
           err |-> "invalid document.xml.rels: missing </Relationships>"]
     ELSE [p |-> [p EXCEPT !.rels =
                    insertAt(p.rels, pos,
                             "\n  <Relationship Id=\"" \o nextRelId
                             \o "\" Type=\"" \o OfficeDocumentNS
                             \o "/chart\" Target=\""
                             \o chartRelTarget(chartIndex) \o "\"/>\n")],
           relID |-> nextRelId, err |-> ""]

generateChartDrawingWithSize(docXML, chartIndex, relId, width, height) ==
  "<w:p><w:r><w:drawing><wp:inline distT=\"0\" distB=\"0\" distL=\"0\" distR=\"0\""
  \o " wp14:anchorId=\"" \o chartDrawingID(ChartAnchorIDBase, chartIndex)
  \o "\" wp14:editId=\"" \o chartDrawingID(ChartEditIDBase, chartIndex)
  \o "\"><wp:extent cx=\"" \o ToStr(width) \o "\" cy=\""
  \o ToStr(height) \o "\"/><wp:effectExtent l=\"0\" t=\"0\" r=\"15875\" b=\"12700\"/>"
  \o "<wp:docPr id=\"" \o ToStr(getNextDocPrId(docXML)) \o "\" name=\"Chart "
  \o ToStr(chartIndex) \o "\"/><wp:cNvGraphicFramePr/>"
  \o "<a:graphic xmlns:a=\"http://schemas.openxmlformats.org/drawingml/2006/main\">"
  \o "<a:graphicData uri=\"http://schemas.openxmlformats.org/drawingml/2006/chart\">"
  \o "<c:chart xmlns:c=\"http://schemas.openxmlformats.org/drawingml/2006/chart\""
  \o " xmlns:r=\"" \o OfficeDocumentNS \o "\" r:id=\"" \o relId \o "\"/>"
  \o "</a:graphicData></a:graphic></wp:inline></w:drawing></w:r></w:p>"

\* The errors of the inserters are wrapped, those of the switch are not.
drawingInserted(p, opts, updated) ==
  IF updated.err = "" THEN [p |-> [p EXCEPT !.doc = updated.out], err |-> ""]
  ELSE IF opts.Position \in {PositionBeginning, PositionEnd}
          \/ (opts.Position \in {PositionAfterText, PositionBeforeText}
              /\ opts.Anchor # "")
  THEN [p |-> p, err |-> "insert chart: " \o updated.err]
  ELSE [p |-> p, err |-> updated.err]

\* Captions.  CaptionOptions, ValidateCaptionOptions, generateCaptionXML
\* and insertCaptionWithElement are called by insertChartDrawing and are
\* not among the source files; what is stated of them here is what the
\* call site shows.
CaptionFigure == "Figure"

CaptionBefore == "before"

\* The error ValidateCaptionOptions returns for the options ("" is nil):
\* the options carry the verdict.
ValidateCaptionOptions(caption) == caption.Invalid

\* The caption paragraph.  The generator is not among the source files:
\* this paragraph stands for what it returns, the label of the caption's
\* type, the number as a SEQ field and the description, with no
\* relationship id and no w:id in it.
generateCaptionXML(caption) ==
  "<w:p><w:pPr><w:pStyle w:val=\"Caption\"/></w:pPr>"
  \o "<w:r><w:t xml:space=\"preserve\">" \o xmlEscape(caption.Type)
  \o " </w:t></w:r>"
  \o (IF caption.AutoNumber
      THEN "<w:fldSimple w:instr=\" SEQ " \o xmlEscape(caption.Type)
           \o " \\* ARABIC \"><w:r><w:t>1</w:t></w:r></w:fldSimple>"
      ELSE "")
  \o "<w:r><w:t xml:space=\"preserve\">: "
  \o xmlEscape(caption.Description) \o "</w:t></w:r></w:p>"

\* The caption before the element or after it.
insertCaptionWithElement(captionXML, elementXML, position) ==
  IF position = CaptionBefore THEN captionXML \o elementXML
  ELSE elementXML \o captionXML

\* contentToInsert: the drawing, with the caption when one is asked for.
\* The caption type defaults to Figure.
chartContent(drawingXML, opts) ==
  IF opts.Caption = <<>> THEN drawingXML
  ELSE insertCaptionWithElement(
         generateCaptionXML(
           [opts.Caption[1] EXCEPT
              !.Type = IF @ = "" THEN CaptionFigure ELSE @]),
         drawingXML, opts.Caption[1].Position)

insertChartDrawing(p, chartIndex, relID, opts) ==
  IF opts.Caption # <<>> /\ ValidateCaptionOptions(opts.Caption[1]) # ""
  THEN [p |-> p,
        err |-> "invalid caption options: "
                \o ValidateCaptionOptions(opts.Caption[1])]
  ELSE drawingInserted(p, opts,
         insertAtPosition(p.doc,
                          chartContent(
                            generateChartDrawingWithSize(p.doc, chartIndex,
                                                         relID, opts.Width,
                                                         opts.Height),
                            opts),
                          opts.Position, opts.Anchor))

\* addContentTypeOverride without its "already present" test.
addContentTypeOverrideAlways(p, chartIndex) ==
  LET chartPart == "/word/charts/chart" \o ToStr(chartIndex) \o ".xml"
      pos == LastIndex(p.ctypes, "</Types>")
  IN IF pos = -1
     THEN [p |-> p, err |-> "invalid [Content_Types].xml: missing </Types>"]
     ELSE [p |-> [p EXCEPT !.ctypes =
                    insertAt(p.ctypes, pos,
                             "\n  <Override PartName=\"" \o chartPart
                             \o "\" ContentType=\"" \o ChartContentType
                             \o "\"/>\n")],
           err |-> ""]

addContentTypeOverride(p, chartIndex) ==
  LET chartPart == "/word/charts/chart" \o ToStr(chartIndex) \o ".xml"
      pos == LastIndex(p.ctypes, "</Types>")
  IN IF Contains(p.ctypes, chartPart) THEN [p |-> p, err |-> ""]
     ELSE IF pos = -1
     THEN [p |-> p, err |-> "invalid [Content_Types].xml: missing </Types>"]
     ELSE [p |-> [p EXCEPT !.ctypes =
                    insertAt(p.ctypes, pos,
                             "\n  <Override PartName=\"" \o chartPart
                             \o "\" ContentType=\"" \o ChartContentType
                             \o "\"/>\n")],
           err |-> ""]

\* createChartXML, createEmbeddedWorkbook and createChartRelationships each
\* write one file, whatever was at that path.
createChartParts(p, chartIndex) ==
  [p EXCEPT !.files = @ \cup
     {"word/charts/chart" \o ToStr(chartIndex) \o ".xml",
      "word/embeddings/Microsoft_Excel_Worksheet" \o ToStr(chartIndex)
        \o ".xlsx",
      "word/charts/_rels/chart" \o ToStr(chartIndex) \o ".xml.rels"}]

\* InsertChart once the content type was added, or was not.
chartTyped(typed, chartIndex, relID) ==
  [p |-> typed.p,
   err |-> IF typed.err # "" THEN "add content type: " \o typed.err ELSE "",
   ids |-> {}, chartIndex |-> chartIndex, relID |-> relID]

\* InsertChart once the drawing was inserted, or was not.
chartDrawn(drawn, chartIndex, relID) ==
  IF drawn.err # ""
  THEN [p |-> drawn.p, err |-> "insert chart drawing: " \o drawn.err,
        ids |-> {}, chartIndex |-> chartIndex, relID |-> relID]
  ELSE chartTyped(addContentTypeOverride(drawn.p, chartIndex), chartIndex,
                  relID)

\* InsertChart once the relationship was added, or was not.
chartRelated(rel, opts, chartIndex) ==
  IF rel.err # ""
  THEN [p |-> rel.p, err |-> "add chart relationship: " \o rel.err,
        ids |-> {}, chartIndex |-> chartIndex, relID |-> ""]
  ELSE chartDrawn(insertChartDrawing(rel.p, chartIndex, rel.relID, opts),
                  chartIndex, rel.relID)

\* InsertChart once the index is chosen: the three files, then the rest.
chartIndexed(p, opts, chartIndex) ==
  chartRelated(addChartRelationship(createChartParts(p, chartIndex),
                                    chartIndex),
               opts, chartIndex)

InsertChart(p, options) ==
  LET invalid == validateChartOptions(options)
  IN IF invalid # "" THEN Result(p, "invalid chart options: " \o invalid, {})
     ELSE chartIndexed(p, applyChartDefaults(options),
                       findNextChartIndex(p.files))

(***************************************************************************)
(* Deletion of paragraphs and tables.  A regular expression is modelled by *)
(* the offsets its leftmost-first search visits.                           *)
(***************************************************************************)

UpperLetters == "ABCDEFGHIJKLMNOPQRSTUVWXYZ"

LowerLetters == "abcdefghijklmnopqrstuvwxyz"

Latin1Upper == "ÀÁÂÃÄÅÆÇÈÉÊËÌÍÎÏÐÑÒÓÔÕÖØÙÚÛÜÝÞ"

Latin1Lower == "àáâãäåæçèéêëìíîïðñòóôõöøùúûüýþ"

\* (?i) on texts of characters up to U+00FF: two characters match when their
\* case folding is the same, so both sides are compared with every upper
\* case letter replaced by its lower case one.
RECURSIVE ToLower(_)
ToLower(str) ==
  IF Len(str) = 0 THEN ""
  ELSE (IF Contains(UpperLetters \o Latin1Upper, SubSeq(str, 1, 1))
        THEN SubSeq(LowerLetters \o Latin1Lower,
                    Index(UpperLetters \o Latin1Upper, SubSeq(str, 1, 1)) + 1,
                    Index(UpperLetters \o Latin1Upper, SubSeq(str, 1, 1)) + 1)
        ELSE SubSeq(str, 1, 1)) \o ToLower(Tail(str))

\* \b at offset k of str: a word character on one side only.
wordBoundary(str, k) ==
  LET isWord(j) == j >= 0 /\ j < Len(str)
                   /\ Contains(Digits \o UpperLetters \o LowerLetters \o "_",
                               SubSeq(str, j + 1, j + 1))
  IN isWord(k - 1) # isWord(k)

\* pattern.MatchString(paraText) for the pattern built from text and opts.
matchString(paraText, text, opts) ==
  LET hay == IF opts.MatchCase THEN paraText ELSE ToLower(paraText)
      needle == IF opts.MatchCase THEN text ELSE ToLower(text)
  IN IF opts.WholeWord
     THEN \E i \in Occurrences(hay, needle) :
            wordBoundary(paraText, i) /\ wordBoundary(paraText, i + Len(needle))
     ELSE Contains(hay, needle)

extractParagraphPlainText(paraContent) == paragraphText(paraContent, 0)

\* The first match of  (?s)<w:p[^>]*>.*?</w:p>  at or after pos: the first
\* "<w:p", the first ">" after it, the first "</w:p>" after that.
paraMatch(raw, pos) ==
  LET i == Index(From(raw, pos), "<w:p")
      gt == Index(From(raw, pos + i), ">")
      close == Index(From(raw, pos + i + gt + 1), "</w:p>")
  IN IF i < 0 \/ gt < 0 \/ close < 0 THEN [start |-> -1, end |-> -1]
     ELSE [start |-> pos + i,
           end |-> pos + i + gt + 1 + close + Len("</w:p>")]

RECURSIVE deleteParagraphsLoop(_, _, _, _)

\* One round of the loop over paras: the match m is skipped when hit, kept
\* otherwise; rest is what the later rounds and the final flush write.
deleteParagraphsRound(raw, lastEnd, m, hit, rest) ==
  [out |-> Slice(raw, lastEnd, IF hit THEN m.start ELSE m.end) \o rest.out,
   count |-> rest.count + (IF hit THEN 1 ELSE 0)]

deleteParagraphsNext(raw, text, opts, lastEnd, m) ==
  IF m.start < 0 THEN [out |-> From(raw, lastEnd), count |-> 0]
  ELSE deleteParagraphsRound(raw, lastEnd, m,
         matchString(extractParagraphPlainText(Slice(raw, m.start, m.end)),
                     text, opts),
         deleteParagraphsLoop(raw, text, opts, m.end))

deleteParagraphsLoop(raw, text, opts, lastEnd) ==
  deleteParagraphsNext(raw, text, opts, lastEnd, paraMatch(raw, lastEnd))

deleteParagraphsContaining(raw, text, opts) ==
  deleteParagraphsLoop(raw, text, opts, 0)

DeleteParagraphs(raw, text, opts) ==
  IF text = "" THEN [doc |-> raw, err |-> "text cannot be empty", count |-> 0]
  ELSE [doc |-> deleteParagraphsContaining(raw, text, opts).out, err |-> "",
        count |-> deleteParagraphsContaining(raw, text, opts).count]

\* The matches of  (?s)<w:tbl>.*?</w:tbl>  from pos on.
RECURSIVE tablePattern(_, _)
tablePattern(raw, pos) ==
  LET i == Index(From(raw, pos), "<w:tbl>")
      close == Index(From(raw, pos + i + Len("<w:tbl>")), "</w:tbl>")
      end == pos + i + Len("<w:tbl>") + close + Len("</w:tbl>")
  IN IF i < 0 \/ close < 0 THEN <<>>
     ELSE <<[start |-> pos + i, end |-> end]>> \o tablePattern(raw, end)

\* deleteNthTable from the matches on: the n-th is cut out.
\* Mutation of tableCut: the first table is cut out, whatever n is.
tableCutFirst(raw, n, tables) ==
  IF n > Len(tables)
  THEN [out |-> "",
        err |-> "table " \o ToStr(n) \o " not found (document has "
                \o ToStr(Len(tables)) \o " tables)"]
  ELSE [out |-> Slice(raw, 0, tables[1].start) \o From(raw, tables[1].end),
        err |-> ""]

tableCut(raw, n, tables) ==
  IF n > Len(tables)
  THEN [out |-> "",
        err |-> "table " \o ToStr(n) \o " not found (document has "
                \o ToStr(Len(tables)) \o " tables)"]
  ELSE [out |-> Slice(raw, 0, tables[n].start) \o From(raw, tables[n].end),
        err |-> ""]

deleteNthTable(raw, n) == tableCut(raw, n, tablePattern(raw, 0))

\* DeleteTable once deleteNthTable returned.
tableDeleted(raw, tableIndex, updated) ==
  IF updated.err # ""
  THEN [doc |-> raw,
        err |-> "delete table " \o ToStr(tableIndex) \o ": " \o updated.err]
  ELSE [doc |-> updated.out, err |-> ""]

DeleteTable(raw, tableIndex) ==
  IF tableIndex < 1 THEN [doc |-> raw, err |-> "table index must be >= 1"]
  ELSE tableDeleted(raw, tableIndex, deleteNthTable(raw, tableIndex))

\* The pattern from the attribute at offset a on:  ="[^"]*"[^>]*>  takes the
\* value to the first quote and the tag to the first ">" after it, then
\* .*?</wp:inline>.*?</w:p>  the first closing tags.  The end of the match,
\* or -1.
drawingTail(raw, a, attr) ==
  LET v == a + Len(attr) + Len("=\"")
      q == Index(From(raw, v), "\"")
      g == Index(From(raw, v + q + 1), ">")
      tagEnd == v + q + 1 + g + 1
      inl == Index(From(raw, tagEnd), "</wp:inline>")
      inlEnd == tagEnd + inl + Len("</wp:inline>")
      close == Index(From(raw, inlEnd), "</w:p>")
  IN IF q < 0 THEN -1
     ELSE IF g < 0 THEN -1
     ELSE IF inl < 0 THEN -1
     ELSE IF close < 0 THEN -1
     ELSE inlEnd + close + Len("</w:p>")

\* [^>]*attr=" after the mark at m: the offsets of the attribute with no ">"
\* between the mark and it, and from which the rest of the pattern matches.
drawingAttrs(raw, m, mark, attr) ==
  {a \in Occurrences(raw, attr \o "=\"") :
     /\ a >= m + Len(mark)
     /\ ~Contains(Slice(raw, m + Len(mark), a), ">")
     /\ drawingTail(raw, a, attr) >= 0}

\* The first match at or after pos of
\*   (?s)<w:p[^>]*>.*?<wp:inline.*?<mark[^>]*attr="[^"]*"[^>]*>.*?</wp:inline>.*?</w:p>
\* the lazy stretches stop at the first continuation that lets the rest
\* match: the first inline after the paragraph tag, the first mark tag with
\* the attribute after it, the first close of an inline, the first close of
\* a paragraph.
drawingMatch(raw, pos, mark, attr) ==
  LET i == Index(From(raw, pos), "<w:p")
      gt == pos + i + Index(From(raw, pos + i), ">") + 1
      inl == gt + Index(From(raw, gt), "<wp:inline") + Len("<wp:inline")
      marks == {m \in Occurrences(raw, mark) :
                  m >= inl /\ drawingAttrs(raw, m, mark, attr) # {}}
  IN IF i < 0 \/ Index(From(raw, pos + i), ">") < 0
        \/ Index(From(raw, gt), "<wp:inline") < 0 \/ marks = {}
     THEN [start |-> -1, end |-> -1]
     ELSE [start |-> pos + i,
           end |-> drawingTail(raw,
                     SetMax(drawingAttrs(raw, SetMin(marks), mark, attr)),
                     attr)]

RECURSIVE drawingPattern(_, _, _, _)

\* FindAllIndex from the first match m on.
drawingMatches(raw, mark, attr, m) ==
  IF m.start < 0 THEN <<>>
  ELSE <<m>> \o drawingPattern(raw, m.end, mark, attr)

drawingPattern(raw, pos, mark, attr) ==
  drawingMatches(raw, mark, attr, drawingMatch(raw, pos, mark, attr))

\* Mutation of drawingCut: an index past the last match takes the last one.
drawingCutClamped(raw, n, kind, found) ==
  IF found = <<>>
  THEN [out |-> "",
        err |-> kind \o " " \o ToStr(n) \o " not found (document has 0 "
                \o kind \o "s)"]
  ELSE [out |-> Slice(raw, 0, found[IF n > Len(found) THEN Len(found) ELSE n].start)
                \o From(raw, found[IF n > Len(found) THEN Len(found) ELSE n].end),
        err |-> ""]

\* deleteNthImage and deleteNthChart from the matches on.
drawingCut(raw, n, kind, found) ==
  IF n > Len(found)
  THEN [out |-> "",
        err |-> kind \o " " \o ToStr(n) \o " not found (document has "
                \o ToStr(Len(found)) \o " " \o kind \o "s)"]
  ELSE [out |-> Slice(raw, 0, found[n].start) \o From(raw, found[n].end),
        err |-> ""]

deleteNthImage(raw, n) ==
  drawingCut(raw, n, "image", drawingPattern(raw, 0, "<a:blip", "r:embed"))

deleteNthChart(raw, n) ==
  drawingCut(raw, n, "chart", drawingPattern(raw, 0, "<c:chart", "r:id"))

\* DeleteImage and DeleteChart once the deletion returned.
drawingDeleted(raw, index, kind, updated) ==
  IF updated.err # ""
  THEN [doc |-> raw,
        err |-> "delete " \o kind \o " " \o ToStr(index) \o ": " \o updated.err]
  ELSE [doc |-> updated.out, err |-> ""]

DeleteImage(raw, imageIndex) ==
  IF imageIndex < 1 THEN [doc |-> raw, err |-> "image index must be >= 1"]
  ELSE drawingDeleted(raw, imageIndex, "image", deleteNthImage(raw, imageIndex))

DeleteChart(raw, chartIndex) ==
  IF chartIndex < 1 THEN [doc |-> raw, err |-> "chart index must be >= 1"]
  ELSE drawingDeleted(raw, chartIndex, "chart", deleteNthChart(raw, chartIndex))

\* paraPattern.FindAllIndex of GetParagraphCount, (?s)<w:p[^>]*> : the
\* offsets where a match starts.  A match runs to the first ">", so an
\* occurrence of "<w:p" starts one unless it lies inside the match before.
paraCountPattern(raw) ==
  {i \in Occurrences(raw, "<w:p") :
     /\ Contains(From(raw, i + Len("<w:p")), ">")
     /\ \A j \in Occurrences(raw, "<w:p") :
          j < i => Contains(Slice(raw, j + Len("<w:p"), i), ">")}

GetParagraphCount(raw) == Cardinality(paraCountPattern(raw))

\* tablePattern.FindAllIndex of GetTableCount, (?s)<w:tbl>
GetTableCount(raw) == Cardinality(Occurrences(raw, "<w:tbl>"))

(***************************************************************************)
(* InsertTOC and the insertion of breaks.                                  *)
(***************************************************************************)

generateTOCTitleXML(title) ==
  "<w:p>" \o "<w:pPr>" \o "<w:pStyle w:val=\"TOCHeading\"/>"
  \o "<w:jc w:val=\"center\"/>" \o "</w:pPr>" \o "<w:r>" \o "<w:rPr>"
  \o "<w:b/>" \o "<w:sz w:val=\"44\"/>" \o "</w:rPr>"
  \o "<w:t xml:space=\"preserve\">" \o xmlEscape(title) \o "</w:t>"
  \o "</w:r>" \o "</w:p>"

generateTOCXML(opts) ==
  (IF opts.Title # "" THEN generateTOCTitleXML(opts.Title) ELSE "")
  \o "<w:p>" \o "<w:pPr/>"
  \o "<w:r>" \o "<w:fldChar w:fldCharType=\"begin\"/>" \o "</w:r>"
  \o "<w:r>" \o "<w:instrText xml:space=\"preserve\">"
  \o xmlEscape(" TOC \\o \"" \o opts.OutlineLevels \o "\" \\h \\z \\u ")
  \o "</w:instrText>" \o "</w:r>"
  \o "<w:r>" \o "<w:fldChar w:fldCharType=\"separate\"/>" \o "</w:r>"
  \o "<w:r>" \o "<w:rPr><w:i/></w:rPr>"
  \o "<w:t>Update this field to show Table of Contents</w:t>" \o "</w:r>"
  \o "<w:r>" \o "<w:fldChar w:fldCharType=\"end\"/>" \o "</w:r>"
  \o "</w:p>"

\* The offset immediately after the opening tag of the body.
findBodyContentStart(docXML) ==
  LET b == nextOpen(docXML, "w:body", 0)
      gt == Index(From(docXML, b), ">")
  IN IF b < 0 \/ gt < 0
     THEN [pos |-> 0, err |-> "could not find <w:body> tag"]
     ELSE [pos |-> b + gt + 1, err |-> ""]

\* The end (after) or the start of the paragraph span r of an anchor.
anchorEdge(r, after) ==
  [pos |-> IF after THEN r.end ELSE r.start, err |-> r.err]

\* The switch of insertTOCAtPosition: insertPos and err.
tocInsertPos(docXML, opts) ==
  IF opts.Position = PositionBeginning THEN findBodyContentStart(docXML)
  ELSE IF opts.Position = PositionEnd
  THEN IF Index(docXML, "</w:body>") = -1
       THEN [pos |-> 0, err |-> "could not find </w:body> tag"]
       ELSE [pos |-> bodyEndOffset(docXML), err |-> ""]
  ELSE IF opts.Position = PositionAfterText
  THEN IF opts.Anchor = ""
       THEN [pos |-> 0, err |-> "anchor text required for PositionAfterText"]
       ELSE anchorEdge(findParagraphRangeByAnchor(docXML, opts.Anchor), TRUE)
  ELSE IF opts.Position = PositionBeforeText
  THEN IF opts.Anchor = ""
       THEN [pos |-> 0, err |-> "anchor text required for PositionBeforeText"]
       ELSE anchorEdge(findParagraphRangeByAnchor(docXML, opts.Anchor), FALSE)
  ELSE [pos |-> 0, err |-> "invalid insert position"]

\* Mutation of tocInsertedAt: the error of the switch is dropped.
tocInsertedAtAlways(docXML, tocXML, at) ==
  [out |-> Slice(docXML, 0, at.pos) \o tocXML \o From(docXML, at.pos),
   err |-> ""]

\* insertTOCAtPosition once insertPos is known.
tocInsertedAt(docXML, tocXML, at) ==
  IF at.err # "" THEN [out |-> "", err |-> at.err]
  ELSE [out |-> Slice(docXML, 0, at.pos) \o tocXML \o From(docXML, at.pos),
        err |-> ""]

insertTOCAtPosition(docXML, tocXML, opts) ==
  tocInsertedAt(docXML, tocXML, tocInsertPos(docXML, opts))

\* InsertTOC once insertTOCAtPosition returned.
tocInserted(raw, updated) ==
  IF updated.err # "" THEN [doc |-> raw, err |-> "insert TOC: " \o updated.err]
  ELSE [doc |-> updated.out, err |-> ""]

InsertTOC(raw, options) ==
  tocInserted(raw,
    insertTOCAtPosition(raw,
      generateTOCXML([options EXCEPT
                        !.OutlineLevels = IF @ = "" THEN "1-3" ELSE @]),
      options))

\* markTOCForUpdate from the field code at tocIdx on: the last begin
\* fldChar before it gets w:dirty unless the region between them has it.
tocMarked(docXML, tocIdx, beginIdx) ==
  IF beginIdx = -1 THEN docXML
  ELSE IF Contains(Slice(docXML, beginIdx, tocIdx), "w:dirty") THEN docXML
  ELSE Slice(docXML, 0, beginIdx)
       \o "w:fldCharType=\"begin\" w:dirty=\"true\"/>"
       \o From(docXML, beginIdx + Len("w:fldCharType=\"begin\"/>"))

markTOCForUpdate(docXML) ==
  LET tocIdx == IF Index(docXML, ">TOC") # -1 THEN Index(docXML, ">TOC")
                ELSE Index(docXML, "> TOC")
  IN IF tocIdx = -1 THEN docXML
     ELSE tocMarked(docXML, tocIdx,
                    LastIndex(Slice(docXML, 0, tocIdx),
                              "w:fldCharType=\"begin\"/>"))

\* UpdateTOC always writes document.xml back and returns no error.
UpdateTOC(raw) == [doc |-> markTOCForUpdate(raw), err |-> ""]

\* The page break paragraph of the break tests.
generatePageBreakXML == "<w:p><w:r><w:br w:type=\"page\"/></w:r></w:p>"

\* insertBreakAtPosition(docXML, breakXML, BreakOptions{Position, Anchor})
insertBreakAtPosition(docXML, breakXML, opts) ==
  insertAtPosition(docXML, breakXML, opts.Position, opts.Anchor)

\* InsertPageBreak: document.xml is written when the insertion succeeded.
InsertPageBreak(raw, opts) ==
  merged(raw, insertBreakAtPosition(raw, generatePageBreakXML, opts))

(***************************************************************************)
(* Table fixtures, after the documents of the merge tests: tables of       *)
(* uniquely labelled cells between labelled paragraphs.  The forms of the  *)
(* open tags and of the cell properties rotate with the position.          *)
(***************************************************************************)

CellText(t, r, c) == "T" \o ToStr(t) \o ToStr(r) \o ToStr(c)

CellPara(t, r, c) ==
  "<w:p><w:r><w:t>" \o CellText(t, r, c) \o "</w:t></w:r></w:p>"

FixtureCell(t, r, c) ==
  LET v == (t + r + c) % 4
  IN (IF v = 0 THEN "<w:tc>"
      ELSE IF v = 1 THEN "<w:tc><w:tcPr/>"
      ELSE IF v = 2 THEN "<w:tc><w:tcPr><w:noWrap/></w:tcPr>"
      ELSE "<w:tc w:x=\"1\"><w:tcPr w:y=\"2\"><w:noWrap/></w:tcPr>")
     \o CellPara(t, r, c) \o "</w:tc>"

\* The number of cells of row r: the tables are ragged, the last of several
\* rows being one cell short.
RowCols(sh, r) ==
  IF r = sh.nR /\ sh.nR > 1 /\ sh.nC > 1 THEN sh.nC - 1 ELSE sh.nC

RECURSIVE FixtureCells(_, _, _, _)
FixtureCells(sh, t, r, c) ==
  IF c > RowCols(sh, r) THEN ""
  ELSE FixtureCell(t, r, c) \o FixtureCells(sh, t, r, c + 1)

RowOpen(t, r) ==
  IF (t + r) % 2 = 1 THEN "<w:tr w:rsidR=\"1\"><w:trPr/>" ELSE "<w:tr>"

FixtureRow(sh, t, r) ==
  RowOpen(t, r) \o FixtureCells(sh, t, r, 1) \o "</w:tr>"

RECURSIVE FixtureRows(_, _, _)
FixtureRows(sh, t, r) ==
  IF r > sh.nR THEN "" ELSE FixtureRow(sh, t, r) \o FixtureRows(sh, t, r + 1)

TableOpen(t) ==
  (IF t % 2 = 1 THEN "<w:tbl w:a=\"1\">" ELSE "<w:tbl>") \o "<w:tblPr/>"

FixtureTable(sh, t) == TableOpen(t) \o FixtureRows(sh, t, 1) \o "</w:tbl>"

FixturePara(i) == "<w:p><w:r><w:t>P" \o ToStr(i) \o "</w:t></w:r></w:p>"

RECURSIVE FixtureTables(_, _)
FixtureTables(sh, t) ==
  IF t > sh.nT THEN ""
  ELSE FixtureTable(sh, t) \o FixturePara(t) \o FixtureTables(sh, t + 1)

DocOpen == "<?xml version=\"1.0\"?><w:document><w:body>"

FixtureDoc(sh) ==
  DocOpen \o FixturePara(0) \o FixtureTables(sh, 1)
  \o "<w:sectPr/></w:body></w:document>"

Shapes ==
  {sh \in [nT : 1..MaxTables, nR : 1..MaxRows, nC : 1..MaxCols] :
     sh.nT * sh.nR * sh.nC <= MaxCells}

Tags == {"w:tbl", "w:tr", "w:tc"}

\* The most elements of one tag a fixture nests directly in one parent.
MaxOf(tag) ==
  IF tag = "w:tbl" THEN MaxTables ELSE IF tag = "w:tr" THEN MaxRows ELSE MaxCols

(***************************************************************************)
(* Packages: a body of two paragraphs, the first split over three runs,    *)
(* before the section properties.  A package is either the one             *)
(* buildIntegrationDocxFromParts builds around the body, or one a word     *)
(* processor wrote: its manifests list its parts, and with prior content   *)
(* it also holds notes, comments and revisions with non-contiguous ids and *)
(* a chart file that no relationship refers to.                            *)
(***************************************************************************)

SplitPara ==
  "<w:p><w:r><w:t>Hello</w:t></w:r><w:r><w:t xml:space=\"preserve\"> Wo</w:t></w:r>"
  \o "<w:r><w:t>rld</w:t></w:r></w:p>"

SecondPara ==
  "<w:p><w:pPr><w:jc w:val=\"left\"/></w:pPr><w:r><w:t>Second</w:t></w:r></w:p>"

RevisedPara ==
  "<w:p><w:pPr><w:rPr><w:ins w:id=\"3\" w:author=\"A\" w:date=\"" \o Now
  \o "\"/></w:rPr></w:pPr><w:ins w:id=\"7\" w:author=\"A\" w:date=\"" \o Now
  \o "\"><w:r><w:t>Earlier</w:t></w:r></w:ins></w:p>"

\* The document.xml buildIntegrationFixture writes around a body.
buildIntegrationFixture(bodyContent) ==
  XMLDecl
  \o "<w:document xmlns:w=\"" \o WordMLNS \o "\" "
  \o "xmlns:r=\"" \o OfficeDocumentNS \o "\" "
  \o "xmlns:wp=\"http://schemas.openxmlformats.org/drawingml/2006/wordprocessingDrawing\" "
  \o "xmlns:wp14=\"http://schemas.microsoft.com/office/word/2010/wordprocessingDrawing\" "
  \o "xmlns:a=\"http://schemas.openxmlformats.org/drawingml/2006/main\" "
  \o "xmlns:c=\"http://schemas.openxmlformats.org/drawingml/2006/chart\">"
  \o "<w:body>" \o bodyContent \o "</w:body></w:document>"

PkgDoc(sh) ==
  buildIntegrationFixture(
    SplitPara \o (IF sh.prior THEN RevisedPara ELSE "") \o SecondPara
    \o "<w:sectPr><w:pgSz w:w=\"12240\" w:h=\"15840\"/></w:sectPr>")

RelOf(id, relType, target) ==
  "<Relationship Id=\"" \o id \o "\" Type=\"" \o OfficeDocumentNS \o "/"
  \o relType \o "\" Target=\"" \o target \o "\"/>"

\* No header part.
NoHeaders == [f \in {} |-> ""]

\* buildIntegrationDocxFromParts: the entries of the package it writes.
buildIntegrationDocxFromParts(docXML, stylesXML, contentTypesOverride) ==
  [doc |-> docXML,
   rels |-> XMLDecl
            \o "<Relationships xmlns=\"http://schemas.openxmlformats.org/package/2006/relationships\">"
            \o "</Relationships>",
   ctypes |-> IF contentTypesOverride # "" THEN contentTypesOverride
              ELSE XMLDecl
                   \o "<Types xmlns=\"http://schemas.openxmlformats.org/package/2006/content-types\">"
                   \o "</Types>",
   footnotes |-> "",
   endnotes |-> "",
   comments |-> "",
   styles |-> stylesXML,
   files |-> {"[Content_Types].xml", "word/document.xml",
              "word/_rels/document.xml.rels"}
             \cup (IF stylesXML # "" THEN {"word/styles.xml"} ELSE {}),
   headers |-> NoHeaders]

\* The document.xml.rels of a package a word processor wrote: the styles
\* part is registered, and so are the note parts of a package with prior
\* content, under ids that are not contiguous.
PkgRels(sh) ==
  XMLDecl
  \o "<Relationships xmlns=\"http://schemas.openxmlformats.org/package/2006/relationships\">"
  \o (IF sh.styled THEN RelOf("rId1", "styles", "styles.xml") ELSE "")
  \o (IF sh.prior
      THEN RelOf("rId4", "footnotes", "footnotes.xml")
           \o RelOf("rId5", "endnotes", "endnotes.xml")
           \o RelOf("rId9", "comments", "comments.xml")
      ELSE "")
  \o "</Relationships>"

DefaultOf(ext, contentType) ==
  "<Default Extension=\"" \o ext \o "\" ContentType=\"" \o contentType \o "\"/>"

OverrideOf(partName, contentType) ==
  "<Override PartName=\"" \o partName \o "\" ContentType=\"" \o contentType \o "\"/>"

WordType(kind) ==
  "application/vnd.openxmlformats-officedocument.wordprocessingml." \o kind \o "+xml"

\* The [Content_Types].xml of a package a word processor wrote: the
\* defaults, the override of the document and an override for each part
\* listed in PkgRels.
PkgContentTypes(sh) ==
  XMLDecl
  \o "<Types xmlns=\"http://schemas.openxmlformats.org/package/2006/content-types\">"
  \o DefaultOf("rels", "application/vnd.openxmlformats-package.relationships+xml")
  \o DefaultOf("xml", "application/xml")
  \o (IF sh.xlsx
      THEN DefaultOf("xlsx",
             "application/vnd.openxmlformats-officedocument.spreadsheetml.sheet")
      ELSE "")
  \o OverrideOf("/word/document.xml", WordType("document.main"))
  \o (IF sh.styled THEN OverrideOf("/word/styles.xml", WordType("styles")) ELSE "")
  \o (IF sh.prior
      THEN OverrideOf("/word/footnotes.xml", WordType("footnotes"))
           \o OverrideOf("/word/endnotes.xml", WordType("endnotes"))
           \o OverrideOf("/word/comments.xml", WordType("comments"))
      ELSE "")
  \o "</Types>"

\* A note written by another tool: the id is not the first attribute.
ForeignNote(noteType, id) ==
  "<w:" \o noteType \o " w:type=\"normal\" w:id=\"" \o id \o "\"><w:p><w:r><w:t>x"
  \o "</w:t></w:r></w:p></w:" \o noteType \o ">"

PkgFootnotes(sh) ==
  IF sh.prior
  THEN appendEntry(
         appendEntry(generateInitialFootnotesXML, "</w:footnotes>",
                     ForeignNote("footnote", "5")).out,
         "</w:footnotes>", generateFootnoteEntry(2, "b")).out
  ELSE ""

PkgEndnotes(sh) ==
  IF sh.prior
  THEN appendEntry(generateInitialEndnotesXML, "</w:endnotes>",
                   ForeignNote("endnote", "3")).out
  ELSE ""

PkgComments(sh) ==
  IF sh.prior
  THEN appendEntry(
         appendEntry(generateInitialCommentsXML, "</w:comments>",
                     generateCommentEntry(4, "A", "A", "c")).out,
         "</w:comments>", generateCommentEntry(0, "A", "A", "d")).out
  ELSE ""

\* The entries of a package a word processor wrote.
PkgFiles(sh) ==
  {"[Content_Types].xml", "word/document.xml", "word/_rels/document.xml.rels"}
  \cup (IF sh.styled THEN {"word/styles.xml"} ELSE {})
  \cup (IF sh.prior
        THEN {"word/footnotes.xml", "word/endnotes.xml", "word/comments.xml",
              "word/charts/chart2.xml", "word/charts/style2.xml",
              "word/charts/_rels/chart2.xml.rels"}
        ELSE {})

\* The styles.xml of TestAddStyle_WithExistingStyles.
PkgStyles(sh) ==
  IF sh.styled
  THEN XMLDecl \o "<w:styles xmlns:w=\"" \o WordMLNS \o "\">"
       \o "<w:style w:type=\"paragraph\" w:styleId=\"Normal\">"
       \o "<w:name w:val=\"Normal\"/></w:style>"
       \o "</w:styles>"
  ELSE ""

\* The package of a shape.  built: it is the package
\* buildIntegrationDocxFromParts builds, with no contentTypesOverride;
\* prior: the package already holds notes, comments, revisions and a chart
\* file; xlsx: its content types declare a default for the xlsx extension;
\* styled: it has a styles part.
PkgOf(sh) ==
  IF sh.built
  THEN buildIntegrationDocxFromParts(PkgDoc(sh), PkgStyles(sh), "")
  ELSE [doc |-> PkgDoc(sh),
        rels |-> PkgRels(sh),
        ctypes |-> PkgContentTypes(sh),
        footnotes |-> PkgFootnotes(sh),
        endnotes |-> PkgEndnotes(sh),
        comments |-> PkgComments(sh),
        styles |-> PkgStyles(sh),
        files |-> PkgFiles(sh),
        headers |-> NoHeaders]

\* The package of the integration tests, and the packages of a word
\* processor: a plain one, one with earlier notes, comments and revisions,
\* and one that declares the xlsx extension.
PkgShapes ==
  {sh \in [prior : BOOLEAN, xlsx : BOOLEAN, styled : BOOLEAN, built : BOOLEAN] :
     IF sh.built THEN ~sh.prior /\ ~sh.xlsx /\ ~sh.styled
     ELSE sh.styled /\ ~(sh.prior /\ sh.xlsx)}

\* The inputs of the operations.
NoteText == "See a<b"

Anchors == {"lo Wor", "Missing"}

TrackedInserts ==
  {[Text |-> "New", Author |-> "", Date |-> "", Position |-> PositionEnd,
    Anchor |-> "", Style |-> "", Bold |-> TRUE, Italic |-> FALSE,
    Underline |-> FALSE],
   [Text |-> "New", Author |-> "Ed", Date |-> Now,
    Position |-> PositionAfterText, Anchor |-> "lo Wor", Style |-> "Quote",
    Bold |-> FALSE, Italic |-> FALSE, Underline |-> FALSE]}

TrackedDeletes ==
  {[Anchor |-> anchor, Author |-> "Rev", Date |-> ""] : anchor \in Anchors}

\* The authors and anchors of the comments: authors whose first character is
\* one byte and two bytes of UTF-8, an anchor the body holds and one it does
\* not.
CommentInputs ==
  {[author |-> "Rev", anchor |-> "lo Wor"],
   [author |-> "Rev", anchor |-> "Missing"],
   [author |-> "Élodie", anchor |-> "lo Wor"]}

\* The options of the chart of the integration tests, at the end of the
\* body, without axes, bar options or caption.
ChartBase ==
  [Categories |-> <<"A", "B">>,
   Series |-> <<[Name |-> "S1", Values |-> <<1, 2>>]>>,
   Position |-> PositionEnd, Anchor |-> "", Width |-> 0, Height |-> 0,
   CategoryAxis |-> <<>>, ValueAxis |-> <<>>, BarChartOptions |-> <<>>,
   Caption |-> <<>>]

AxisOptions(min, max, majorUnit, minorUnit) ==
  [Min |-> min, Max |-> max, MajorUnit |-> majorUnit, MinorUnit |-> minorUnit]

CaptionOptions(type, position, invalid) ==
  [Type |-> type, Position |-> position,
   Description |-> "Revenue & cost", AutoNumber |-> TRUE, Invalid |-> invalid]

\* Options that pass the validation of InsertChart: positions and anchors
\* the drawing is and is not inserted at, axes and bar options in range,
\* captions ValidateCaptionOptions accepts and one it rejects.
ChartAccepted ==
  {ChartBase,
   [ChartBase EXCEPT !.Position = PositionAfterText, !.Anchor = "Missing"],
   [ChartBase EXCEPT !.Position = PositionBeforeText],
   [ChartBase EXCEPT !.Position = PositionInvalid],
   [ChartBase EXCEPT
      !.CategoryAxis = <<AxisOptions(<<>>, <<>>, <<>>, <<>>)>>,
      !.ValueAxis = <<AxisOptions(<<0>>, <<10>>, <<2>>, <<1>>)>>,
      !.BarChartOptions = <<[GapWidth |-> 150, Overlap |-> 0]>>,
      !.Caption = <<CaptionOptions("", "", "")>>],
   [ChartBase EXCEPT
      !.Caption = <<CaptionOptions("Table", CaptionBefore, "")>>],
   [ChartBase EXCEPT
      !.Caption = <<CaptionOptions(CaptionFigure, CaptionBefore,
                                   "caption rejected")>>]}

\* Options the validation rejects, each leaving the package as it was: a
\* series whose name is white space, axes and bar options out of range.
ChartRejected ==
  {[ChartBase EXCEPT
      !.Series = <<[Name |-> "\f ", Values |-> <<1, 2>>]>>],
   [ChartBase EXCEPT
      !.CategoryAxis = <<AxisOptions(<<5>>, <<5>>, <<>>, <<>>)>>],
   [ChartBase EXCEPT
      !.ValueAxis = <<AxisOptions(<<0>>, <<>>, <<0>>, <<>>)>>],
   [ChartBase EXCEPT
      !.CategoryAxis = <<AxisOptions(<<>>, <<10>>, <<>>, <<-1>>)>>],
   [ChartBase EXCEPT
      !.ValueAxis = <<AxisOptions(<<>>, <<>>, <<2>>, <<2>>)>>],
   [ChartBase EXCEPT
      !.BarChartOptions = <<[GapWidth |-> 501, Overlap |-> 0]>>],
   [ChartBase EXCEPT
      !.BarChartOptions = <<[GapWidth |-> 0, Overlap |-> -101]>>]}

(***************************************************************************)
(* The table specification: one operation applied to one fixture.          *)
(***************************************************************************)

InitMerge ==
  /\ shape \in Shapes
  /\ Loaded(buildIntegrationDocxFromParts(FixtureDoc(shape), "", ""))
  /\ op = "init"
  /\ args = <<>>
  /\ err = ""
  /\ ret = <<>>
  /\ steps = 0
  /\ pre = Pkg

\* The number of open tags of tag in s.
CountOpen(s, tag) ==
  Cardinality(Occurrences(s, "<" \o tag \o ">")
              \cup Occurrences(s, "<" \o tag \o " "))

FindBlock ==
  /\ op = "init"
  /\ \E tag \in Tags : \E n \in 1..(MaxOf(tag) + 1) :
       /\ LET r == findNthXMLBlock(doc, tag, n)
          IN /\ op' = "FindBlock"
             /\ args' = <<tag, n>>
             /\ err' = r.err
             /\ ret' = <<r.start, r.end>>
  /\ pre' = Pkg
  /\ steps' = steps + 1
  /\ UNCHANGED <<doc, rels, ctypes, footnotes, endnotes, comments, styles,
                 files, headers, shape>>

MergeHorizontal ==
  /\ op = "init"
  /\ \E t \in 1..(MaxTables + 1) : \E row \in 1..(MaxRows + 1) :
     \E a \in 1..MaxCols : \E b \in (a + 1)..(MaxCols + 1) :
       /\ t <= shape.nT + 1 /\ row <= shape.nR + 1 /\ b <= shape.nC + 1
       /\ LET r == MergeTableCellsHorizontal(doc, t, row, a, b)
          IN /\ op' = "MergeHorizontal"
             /\ args' = <<t, row, a, b>>
             /\ err' = r.err
             /\ doc' = r.doc
  /\ ret' = <<>>
  /\ pre' = Pkg
  /\ steps' = steps + 1
  /\ UNCHANGED <<rels, ctypes, footnotes, endnotes, comments, styles, files,
                 headers, shape>>

MergeVertical ==
  /\ op = "init"
  /\ \E t \in 1..(MaxTables + 1) : \E col \in 1..(MaxCols + 1) :
     \E r1 \in 1..MaxRows : \E r2 \in (r1 + 1)..(MaxRows + 1) :
       /\ t <= shape.nT + 1 /\ col <= shape.nC + 1 /\ r2 <= shape.nR + 1
       /\ LET r == MergeTableCellsVertical(doc, t, r1, r2, col)
          IN /\ op' = "MergeVertical"
             /\ args' = <<t, r1, r2, col>>
             /\ err' = r.err
             /\ doc' = r.doc
  /\ ret' = <<>>
  /\ pre' = Pkg
  /\ steps' = steps + 1
  /\ UNCHANGED <<rels, ctypes, footnotes, endnotes, comments, styles, files,
                 headers, shape>>

TableDelete ==
  /\ op = "init"
  /\ \E n \in 1..(MaxTables + 1) :
       /\ n <= shape.nT + 1
       /\ LET r == DeleteTable(doc, n)
          IN /\ op' = "DeleteTable"
             /\ args' = <<n>>
             /\ err' = r.err
             /\ doc' = r.doc
  /\ ret' = <<>>
  /\ pre' = Pkg
  /\ steps' = steps + 1
  /\ UNCHANGED <<rels, ctypes, footnotes, endnotes, comments, styles, files,
                 headers, shape>>

TableCount ==
  /\ op = "init"
  /\ op' = "GetTableCount"
  /\ args' = <<>>
  /\ err' = ""
  /\ ret' = <<GetTableCount(doc)>>
  /\ pre' = Pkg
  /\ steps' = steps + 1
  /\ UNCHANGED <<doc, rels, ctypes, footnotes, endnotes, comments, styles,
                 files, headers, shape>>

\* The values UpdateTableCell writes: none, and one that needs escaping.
CellValues == {"", "X&Y"}

TableUpdate ==
  /\ op = "init"
  /\ \E t \in 1..(MaxTables + 1) : \E row \in 1..(MaxRows + 1) :
     \E col \in 1..(MaxCols + 1) : \E value \in CellValues :
       /\ t <= shape.nT + 1 /\ row <= shape.nR + 1 /\ col <= shape.nC + 1
       /\ LET r == UpdateTableCell(doc, t, row, col, value)
          IN /\ op' = "UpdateTableCell"
             /\ args' = <<t, row, col, value>>
             /\ err' = r.err
             /\ doc' = r.doc
  /\ ret' = <<>>
  /\ pre' = Pkg
  /\ steps' = steps + 1
  /\ UNCHANGED <<rels, ctypes, footnotes, endnotes, comments, styles, files,
                 headers, shape>>

NextMerge ==
  \/ FindBlock \/ MergeHorizontal \/ MergeVertical \/ TableDelete
  \/ TableCount \/ TableUpdate

SpecMerge == InitMerge /\ [][NextMerge]_vars

(***************************************************************************)
(* The package specification: up to MaxOps operations on one package.      *)
(***************************************************************************)

Init ==
  /\ shape \in PkgShapes
  /\ Loaded(PkgOf(shape))
  /\ steps = 0
  /\ op = "init"
  /\ args = <<>>
  /\ err = ""
  /\ ret = [ids |-> {}, chartIndex |-> 0, relID |-> ""]
  /\ pre = Pkg

\* The package, the error and the results of a call become the state.
Done(name, a, r) ==
  /\ doc' = r.p.doc
  /\ rels' = r.p.rels
  /\ ctypes' = r.p.ctypes
  /\ footnotes' = r.p.footnotes
  /\ endnotes' = r.p.endnotes
  /\ comments' = r.p.comments
  /\ styles' = r.p.styles
  /\ files' = r.p.files
  /\ headers' = r.p.headers
  /\ op' = name
  /\ args' = a
  /\ err' = r.err
  /\ ret' = [ids |-> r.ids, chartIndex |-> r.chartIndex, relID |-> r.relID]
  /\ pre' = Pkg
  /\ steps' = steps + 1
  /\ UNCHANGED shape

Footnote ==
  /\ steps < MaxOps
  /\ \E anchor \in Anchors :
       Done("InsertFootnote", <<NoteText, anchor>>,
            InsertFootnote(Pkg, NoteText, anchor))

Endnote ==
  /\ steps < MaxOps
  /\ \E anchor \in Anchors :
       Done("InsertEndnote", <<NoteText, anchor>>,
            InsertEndnote(Pkg, NoteText, anchor))

Comment ==
  /\ steps < MaxOps
  /\ \E c \in CommentInputs :
       Done("InsertComment", <<NoteText, c.author, "", c.anchor>>,
            InsertComment(Pkg, NoteText, c.author, "", c.anchor))

TrackedInsert ==
  /\ steps < MaxOps
  /\ \E opts \in TrackedInserts :
       Done("InsertTrackedText", <<opts>>, InsertTrackedText(Pkg, opts))

TrackedDelete ==
  /\ steps < MaxOps
  /\ \E opts \in TrackedDeletes :
       Done("DeleteTrackedText", <<opts>>, DeleteTrackedText(Pkg, opts))

Chart ==
  /\ steps < MaxOps
  /\ \E opts \in ChartAccepted :
       Done("InsertChart", <<opts>>, InsertChart(Pkg, opts))

\* InsertChart with options its validation rejects.
ChartRejection ==
  /\ steps < MaxOps
  /\ \E opts \in ChartRejected :
       Done("InsertChart", <<opts>>, InsertChart(Pkg, opts))

Next ==
  Footnote \/ Endnote \/ Comment \/ TrackedInsert \/ TrackedDelete \/ Chart

Spec == Init /\ [][Next]_vars

(***************************************************************************)
(* The registration specification: up to MaxOps calls, each a public       *)
(* operation that registers a part or one of the registration helpers      *)
(* applied to the package directly.                                        *)
(***************************************************************************)

RegShapes ==
  {sh \in [prior : BOOLEAN, xlsx : {FALSE}, styled : BOOLEAN, built : BOOLEAN] :
     sh.built => ~sh.prior}

NoteParts == {"footnotes", "endnotes", "comments"}

\* A StyleDefinition; full sets every field TestGenerateStyleXML_ParagraphFull
\* sets besides those given, to the values of that test.
StyleDef(id, name, type, basedOn, nextStyle, bold, italic, fontSize, keepNext,
         outlineLevel, full) ==
  [ID |-> id, Name |-> name, Type |-> type, BasedOn |-> basedOn,
   NextStyle |-> nextStyle,
   FontFamily |-> IF full THEN "Calibri" ELSE "",
   FontSize |-> fontSize,
   Color |-> IF full THEN "1F4E79" ELSE "",
   Bold |-> bold, Italic |-> italic,
   Underline |-> full, Strikethrough |-> full, AllCaps |-> full,
   SmallCaps |-> full,
   Alignment |-> IF full THEN ParagraphAlignCenter ELSE "",
   SpaceBefore |-> IF full THEN 240 ELSE 0,
   SpaceAfter |-> IF full THEN 120 ELSE 0,
   LineSpacing |-> IF full THEN 480 ELSE 0,
   IndentLeft |-> IF full THEN 720 ELSE 0,
   IndentRight |-> IF full THEN 360 ELSE 0,
   IndentFirst |-> IF full THEN 360 ELSE 0,
   KeepNext |-> keepNext,
   KeepLines |-> full, PageBreakBef |-> full, OutlineLevel |-> outlineLevel]

\* After TestAddStyle_WithExistingStyles, TestAddStyle_Integration,
\* TestGenerateStyleXML_ParagraphFull and TestAddStyle_EmptyID; the second
\* with a font family to escape, one spacing and a hanging first line.
StyleDefs ==
  {StyleDef("Emphasis", "Emphasis", "character", "", "", TRUE, FALSE, 0,
            FALSE, 0, FALSE),
   [StyleDef("Head&1", "", "", "Normal", "", TRUE, TRUE, 28, TRUE, 1, FALSE)
      EXCEPT !.FontFamily = "A&B", !.SpaceAfter = 120, !.IndentFirst = -360],
   StyleDef("CustomPara", "Custom Paragraph", "paragraph", "Normal", "Normal",
            TRUE, TRUE, 28, TRUE, 1, TRUE),
   StyleDef("", "", "", "", "", FALSE, FALSE, 0, FALSE, 0, FALSE)}

InitReg ==
  /\ shape \in RegShapes
  /\ Loaded(PkgOf(shape))
  /\ steps = 0
  /\ op = "init"
  /\ args = <<>>
  /\ err = ""
  /\ ret = [ids |-> {}, chartIndex |-> 0, relID |-> ""]
  /\ pre = Pkg

Style ==
  /\ steps < MaxOps
  /\ \E def \in StyleDefs : Done("AddStyle", <<def>>, AddStyle(Pkg, def))

\* After TestAddStyles_Batch: no definition, or two of them.
StyleBatches == {<<>>} \cup {<<a, b>> : a, b \in StyleDefs}

Styles ==
  /\ steps < MaxOps
  /\ \E defs \in StyleBatches :
       Done("AddStyles", <<defs>>, AddStyles(Pkg, defs))

RegisterRelationship ==
  /\ steps < MaxOps
  /\ \E kind \in NoteParts :
       Done("addNoteRelationship", <<kind \o ".xml", kind>>,
            Result(addNoteRelationship(Pkg, kind \o ".xml", kind), "", {}))

RegisterContentType ==
  /\ steps < MaxOps
  /\ \E kind \in NoteParts :
       Done("addNoteContentType", <<kind \o ".xml", kind>>,
            Result(addNoteContentType(Pkg, kind \o ".xml", kind), "", {}))

RegisterStyles ==
  /\ steps < MaxOps
  /\ Done("ensureStylesRelationship", <<"styles.xml">>,
          Result(ensureStylesRelationship(Pkg), "", {}))

RegisterOverride ==
  /\ steps < MaxOps
  /\ \E chartIndex \in 1..(MaxOps + 1) :
       Done("addContentTypeOverride", <<chartIndex>>,
            Wrapped(addContentTypeOverride(Pkg, chartIndex), "", {}))

NextReg ==
  \/ Footnote \/ Endnote \/ Comment \/ Style \/ Styles
  \/ RegisterRelationship \/ RegisterContentType \/ RegisterStyles
  \/ RegisterOverride

SpecReg == InitReg /\ [][NextReg]_vars

(***************************************************************************)
(* Section properties: SetPageNumber and SetTextWatermark.                 *)
(***************************************************************************)

PageNumDecimal == "decimal"

\* The pgNumType element setPageNumberInSectPr builds ("" when it has
\* nothing to set).
pgNumTypeElement(opts) ==
  IF opts.Start > 0 /\ opts.Format # ""
  THEN "<w:pgNumType w:start=\"" \o ToStr(opts.Start) \o "\" w:fmt=\""
       \o opts.Format \o "\"/>"
  ELSE IF opts.Start > 0
  THEN "<w:pgNumType w:start=\"" \o ToStr(opts.Start) \o "\"/>"
  ELSE IF opts.Format # ""
  THEN "<w:pgNumType w:fmt=\"" \o opts.Format \o "\"/>"
  ELSE ""

\* existingPattern  <w:pgNumType[^/]*/>  : the leftmost match in s at or
\* after pos, as start and end, start -1 when there is none.
RECURSIVE existingPattern(_, _)
existingPattern(s, pos) ==
  LET at == Index(From(s, pos), "<w:pgNumType")
      from == pos + at + Len("<w:pgNumType")
      slash == Index(From(s, from), "/")
  IN IF at < 0 \/ slash < 0 THEN [start |-> -1, end |-> -1]
     ELSE IF Slice(s, from + slash, from + slash + 2) = "/>"
     THEN [start |-> pos + at, end |-> from + slash + 2]
     ELSE existingPattern(s, pos + at + 1)

\* The characters of a name in a replacement template: the letters and
\* digits of unicode.IsLetter and unicode.IsDigit up to U+00FF, and "_".
NameRunes ==
  UpperLetters \o LowerLetters \o Digits \o "_"
  \o "ªµºÀÁÂÃÄÅÆÇÈÉÊËÌÍÎÏÐÑÒÓÔÕÖØÙÚÛÜÝÞßàáâãäåæçèéêëìíîïðñòóôõöøùúûüýþÿ"

\* The length of the longest prefix of str made of name characters.
RECURSIVE nameLength(_)
nameLength(str) ==
  IF Len(str) = 0 \/ ~Contains(NameRunes, SubSeq(str, 1, 1)) THEN 0
  ELSE 1 + nameLength(From(str, 1))

\* extract (regexp): the name that leads str, as name or as {name}, and what
\* follows it; ok is FALSE for an empty name and for a missing "}".
extract(str) ==
  LET brace == HasPrefix(str, "{")
      body == IF brace THEN From(str, 1) ELSE str
      i == nameLength(body)
  IN IF i = 0 \/ (brace /\ ~HasPrefix(From(body, i), "}"))
     THEN [ok |-> FALSE, name |-> "", rest |-> str]
     ELSE [ok |-> TRUE, name |-> Slice(body, 0, i),
           rest |-> From(body, IF brace THEN i + 1 ELSE i)]

\* Regexp.expand for existingPattern, which has no group: "$$" is a dollar,
\* $0 and ${0} are the match, any other name is empty, and a "$" that no
\* name follows stays.
RECURSIVE expand(_, _)
expandName(e, after, match) ==
  IF ~e.ok THEN "$" \o expand(after, match)
  ELSE (IF e.name = "0" THEN match ELSE "") \o expand(e.rest, match)

expand(template, match) ==
  LET d == Index(template, "$")
  IN IF d < 0 THEN template
     ELSE IF HasPrefix(From(template, d + 1), "$")
     THEN Slice(template, 0, d + 1) \o expand(From(template, d + 2), match)
     ELSE Slice(template, 0, d)
          \o expandName(extract(From(template, d + 1)),
                        From(template, d + 1), match)

\* existingPattern.ReplaceAll(s, new)
RECURSIVE replaceAllExisting(_, _)
replaceAllExisting(s, new) ==
  LET m == existingPattern(s, 0)
  IN IF m.start < 0 THEN s
     ELSE Slice(s, 0, m.start) \o expand(new, Slice(s, m.start, m.end))
          \o replaceAllExisting(From(s, m.end), new)

\* setPageNumberInSectPr from the bounds of the last sectPr on.
sectPrUpdated(docXML, pgNumType, sectPrStart, sectPrEnd) ==
  IF existingPattern(Slice(docXML, sectPrStart, sectPrEnd), 0).start >= 0
  THEN [out |-> Slice(docXML, 0, sectPrStart)
                \o replaceAllExisting(Slice(docXML, sectPrStart, sectPrEnd),
                                      pgNumType)
                \o From(docXML, sectPrEnd),
        err |-> ""]
  ELSE LET closeIdx == LastIndex(Slice(docXML, sectPrStart, sectPrEnd),
                                 "</w:sectPr>")
       IN IF closeIdx = -1
          THEN [out |-> "", err |-> "could not find </w:sectPr> closing tag"]
          ELSE [out |-> insertAt(docXML, sectPrStart + closeIdx, pgNumType),
                err |-> ""]

setPageNumberInSectPr(docXML, opts) ==
  LET pgNumType == pgNumTypeElement(opts)
      bodyEnd == Index(docXML, "</w:body>")
      sectPrStart == LastIndex(Slice(docXML, 0, bodyEnd), "<w:sectPr")
      sectPrEnd == Index(From(docXML, sectPrStart), "</w:sectPr>")
  IN IF pgNumType = "" THEN [out |-> docXML, err |-> ""]
     ELSE IF bodyEnd = -1
     THEN [out |-> "", err |-> "could not find </w:body> tag"]
     ELSE IF sectPrStart = -1
     THEN [out |-> insertAt(docXML, bodyEnd,
                            "<w:sectPr>" \o pgNumType \o "</w:sectPr>"),
           err |-> ""]
     ELSE IF sectPrEnd = -1
     THEN [out |-> "", err |-> "malformed sectPr element"]
     ELSE sectPrUpdated(docXML, pgNumType, sectPrStart,
                        sectPrEnd + sectPrStart + Len("</w:sectPr>"))

\* What an operation on the section properties leaves: the package, the
\* error, the header part it created and the header part it wrote into.
SectionResult(p, e, written, injected) ==
  [p |-> p, err |-> e, written |-> written, injected |-> injected]

\* SetPageNumber once the section properties were updated, or were not.
pageNumberSet(p, updated) ==
  IF updated.err # ""
  THEN SectionResult(p, "set page number: " \o updated.err, "", "")
  ELSE SectionResult([p EXCEPT !.doc = updated.out], "", "", "")

SetPageNumber(p, options) ==
  IF options.Start < 0
  THEN SectionResult(p, "page number start must be >= 0", "", "")
  ELSE pageNumberSet(p,
         setPageNumberInSectPr(
           p.doc, [options EXCEPT !.Format = IF @ = "" THEN PageNumDecimal
                                             ELSE @]))

\* refPattern  <w:headerReference w:type="default" r:id="([^"]+)"/>  : the
\* id of the leftmost match in docXML at or after pos, "" when none.
RECURSIVE refPattern(_, _)
refPattern(docXML, pos) ==
  LET open == "<w:headerReference w:type=\"default\" r:id=\""
      at == Index(From(docXML, pos), open)
      from == pos + at + Len(open)
      quote == Index(From(docXML, from), "\"")
  IN IF at < 0 \/ quote < 0 THEN ""
     ELSE IF quote > 0 /\ Slice(docXML, from + quote, from + quote + 3) = "\"/>"
     THEN Slice(docXML, from, from + quote)
     ELSE refPattern(docXML, pos + at + 1)

\* [^>]*Target="([^"]+)"  after the relationship id that ends at from: the
\* offsets of  Target="  with no ">" between from and the value, and a
\* value of at least one character closed by a quote.
targetOffsets(relsRaw, from) ==
  {t \in Occurrences(relsRaw, "Target=\"") :
     /\ t >= from
     /\ ~Contains(Slice(relsRaw, from, t), ">")
     /\ Index(From(relsRaw, t + Len("Target=\"")), "\"") > 0}

\* The value of the attribute at offset t, up to the first quote.
targetValue(relsRaw, t) ==
  Slice(relsRaw, t + Len("Target=\""),
        t + Len("Target=\"")
        + Index(From(relsRaw, t + Len("Target=\"")), "\""))

\* targetPattern  <Relationship Id="relID"[^>]*Target="([^"]+)"  : the
\* target of the leftmost match in relsRaw at or after pos, "" when none.
\* [^>]* is greedy: of the attributes it can reach, the last one is taken.
RECURSIVE targetPattern(_, _, _)
targetPattern(relsRaw, relID, pos) ==
  LET open == "<Relationship Id=\"" \o relID \o "\""
      at == Index(From(relsRaw, pos), open)
      from == pos + at + Len(open)
  IN IF at < 0 THEN ""
     ELSE IF targetOffsets(relsRaw, from) # {}
     THEN targetValue(relsRaw, SetMax(targetOffsets(relsRaw, from)))
     ELSE targetPattern(relsRaw, relID, pos + at + 1)

findDefaultHeaderFile(p) ==
  LET relID == refPattern(p.doc, 0)
  IN IF relID = "" THEN "" ELSE targetPattern(p.rels, relID, 0)

\* The fields of WatermarkOptions.  Opacity is held in hundredths (50 is
\* 0.5), which is what the "%.2f" of the shape prints.
WatermarkOptions(text, fontFamily, color, opacity, diagonal) ==
  [Text |-> text, FontFamily |-> fontFamily, Color |-> color,
   Opacity |-> opacity, Diagonal |-> diagonal]

\* fmt.Sprintf("%.2f", opacity) for an opacity of h hundredths, 0 <= h.
formatOpacity(h) ==
  ToStr(h \div 100) \o "." \o ToStr((h % 100) \div 10) \o ToStr(h % 10)

\* The VML shapetype of generateWatermarkShapeXML, up to the shape.
watermarkShapeType ==
  "<w:p>"
  \o "<w:pPr><w:pStyle w:val=\"Header\"/></w:pPr>"
  \o "<w:r>"
  \o "<w:rPr><w:noProof/></w:rPr>"
  \o "<w:pict>"
  \o "<v:shapetype id=\"_x0000_t136\" coordsize=\"21600,21600\" "
  \o "o:spt=\"136\" adj=\"10800\" path=\"m@7,l@8,m@5,21600l@6,21600e\">"
  \o "<v:formulas>"
  \o "<v:f eqn=\"sum #0 0 10800\"/>"
  \o "<v:f eqn=\"prod #0 2 1\"/>"
  \o "<v:f eqn=\"sum 21600 0 @1\"/>"
  \o "<v:f eqn=\"sum 0 0 @2\"/>"
  \o "<v:f eqn=\"sum 21600 0 @3\"/>"
  \o "<v:f eqn=\"if @0 @3 0\"/>"
  \o "<v:f eqn=\"if @0 21600 @1\"/>"
  \o "<v:f eqn=\"if @0 0 @2\"/>"
  \o "<v:f eqn=\"if @0 @4 21600\"/>"
  \o "<v:f eqn=\"mid @5 @6\"/>"
  \o "<v:f eqn=\"mid @8 @5\"/>"
  \o "<v:f eqn=\"mid @7 @8\"/>"
  \o "<v:f eqn=\"mid @6 @7\"/>"
  \o "<v:f eqn=\"sum @6 0 @5\"/>"
  \o "</v:formulas>"
  \o "<v:path textpathok=\"t\" o:connecttype=\"custom\" "
  \o "o:connectlocs=\"@9,0;@10,10800;@11,21600;@12,10800\" "
  \o "o:connectangles=\"270,180,90,0\"/>"
  \o "<v:textpath on=\"t\" fitshape=\"t\"/>"
  \o "<v:handles><v:h position=\"#0,bottomRight\" xrange=\"6629,14971\"/></v:handles>"
  \o "<o:lock v:ext=\"edit\" text=\"t\" shapetype=\"t\"/>"
  \o "</v:shapetype>"

generateWatermarkShapeXML(opts) ==
  watermarkShapeType
  \o "<v:shape id=\"PowerPlusWaterMarkObject\" "
  \o "o:spid=\"_x0000_s2049\" type=\"#_x0000_t136\" "
  \o "style=\"position:absolute;margin-left:0;margin-top:0;"
  \o "width:468pt;height:117pt;"
  \o (IF opts.Diagonal THEN "rotation:315;" ELSE "")
  \o "z-index:-251658752;"
  \o "mso-position-horizontal:center;mso-position-horizontal-relative:margin;"
  \o "mso-position-vertical:center;mso-position-vertical-relative:margin\" "
  \o "o:allowincell=\"f\" fillcolor=\"#"
  \o opts.Color \o "\" stroked=\"f\">"
  \o "<v:fill opacity=\"" \o formatOpacity(opts.Opacity) \o "\"/>"
  \o "<v:textpath style=\"font-family:&quot;" \o xmlEscape(opts.FontFamily)
  \o "&quot;;font-size:1pt\" string=\"" \o xmlEscape(opts.Text) \o "\"/>"
  \o "</v:shape>"
  \o "</w:pict>"
  \o "</w:r>"
  \o "</w:p>"

ensureVMLNamespaces(headerXML) ==
  LET withV == IF ~Contains(headerXML, "xmlns:v=")
               THEN Replace1(headerXML, "<w:hdr ",
                             "<w:hdr xmlns:v=\"urn:schemas-microsoft-com:vml\" ")
               ELSE headerXML
  IN IF ~Contains(withV, "xmlns:o=")
     THEN Replace1(withV, "<w:hdr ",
                   "<w:hdr xmlns:o=\"urn:schemas-microsoft-com:office:office\" ")
     ELSE withV

\* strings.Split(path, "/")
RECURSIVE splitPath(_)
splitPath(path) ==
  IF Index(path, "/") < 0 THEN <<path>>
  ELSE <<Slice(path, 0, Index(path, "/"))>>
       \o splitPath(From(path, Index(path, "/") + 1))

\* filepath.Clean of a rooted path, element by element: an empty element
\* and "." are dropped, ".." drops the element before it.
RECURSIVE cleanElements(_, _)
cleanElements(done, todo) ==
  IF todo = <<>> THEN done
  ELSE IF todo[1] \in {"", "."} THEN cleanElements(done, Tail(todo))
  ELSE IF todo[1] = ".."
  THEN cleanElements(SubSeq(done, 1, Len(done) - 1), Tail(todo))
  ELSE cleanElements(Append(done, todo[1]), Tail(todo))

RECURSIVE joinElements(_)
joinElements(elems) ==
  IF elems = <<>> THEN "" ELSE "/" \o elems[1] \o joinElements(Tail(elems))

\* filepath.Join(dir, "word", headerFile)
headerPath(dir, headerFile) ==
  IF cleanElements(<<>>, splitPath(dir \o "/word/" \o headerFile)) = <<>>
  THEN "/"
  ELSE joinElements(cleanElements(<<>>,
                                  splitPath(dir \o "/word/" \o headerFile)))

\* The name in the package of the file at path ("" outside of u.tempDir).
partName(p, path) ==
  IF HasPrefix(path, p.tempDir \o "/")
  THEN From(path, Len(p.tempDir) + 1) ELSE ""

\* Whether path is a directory: one that leads to u.tempDir, u.tempDir
\* itself, or one that holds a part of the package.
isDir(p, path) ==
  \/ path = "/"
  \/ HasPrefix(p.tempDir \o "/", path \o "/")
  \/ /\ partName(p, path) # ""
     /\ \E f \in p.files : HasPrefix(f, partName(p, path) \o "/")

\* Whether path leads through a part of the package, which is a file.
throughFile(p, path) ==
  \E f \in p.files : HasPrefix(partName(p, path), f \o "/")

\* os.ReadFile of a part the state holds the content of.
readFile(p, name) ==
  CASE name = "word/document.xml" -> p.doc
    [] name = "word/_rels/document.xml.rels" -> p.rels
    [] name = "[Content_Types].xml" -> p.ctypes
    [] name = "word/footnotes.xml" -> p.footnotes
    [] name = "word/endnotes.xml" -> p.endnotes
    [] name = "word/comments.xml" -> p.comments
    [] name = "word/styles.xml" -> p.styles
    [] OTHER -> p.headers[name]

\* os.WriteFile of such a part.
writeFile(p, name, content) ==
  CASE name = "word/document.xml" -> [p EXCEPT !.doc = content]
    [] name = "word/_rels/document.xml.rels" -> [p EXCEPT !.rels = content]
    [] name = "[Content_Types].xml" -> [p EXCEPT !.ctypes = content]
    [] name = "word/footnotes.xml" -> [p EXCEPT !.footnotes = content]
    [] name = "word/endnotes.xml" -> [p EXCEPT !.endnotes = content]
    [] name = "word/comments.xml" -> [p EXCEPT !.comments = content]
    [] name = "word/styles.xml" -> [p EXCEPT !.styles = content]
    [] OTHER -> [p EXCEPT !.files = @ \cup {name},
                          !.headers = (name :> content) @@ @]

\* The number of header names createWatermarkHeader tries.
HeaderNameLimit == 10

\* The loop of createWatermarkHeader from i on: the first name headerI.xml
\* that word/ does not hold, and the last name tried when it holds them all.
RECURSIVE headerFileName(_, _)
headerFileName(fs, i) ==
  IF ("word/header" \o ToStr(i) \o ".xml") \notin fs \/ i = HeaderNameLimit
  THEN "header" \o ToStr(i) \o ".xml"
  ELSE headerFileName(fs, i + 1)

\* addHeaderFooterRelationship, updateDocumentForHeaderFooter and
\* addHeaderFooterContentType for a default header: the relationship, the
\* reference at the head of the last section properties, the override.
headerRegistered(p, headerFile, relID, sectPrStart) ==
  [p EXCEPT
     !.rels = Replace1(@, "</Relationships>",
                       RelOf(relID, "header", headerFile) \o "</Relationships>"),
     !.doc = IF sectPrStart < 0 THEN @
             ELSE insertAt(@, sectPrStart + Index(From(@, sectPrStart), ">") + 1,
                           "<w:headerReference w:type=\"default\" r:id=\""
                           \o relID \o "\"/>"),
     !.ctypes = Replace1(@, "</Types>",
                         OverrideOf("/word/" \o headerFile, WordType("header"))
                         \o "</Types>")]

\* The header part createWatermarkHeader writes around the watermark.
watermarkHeader(watermarkXML) ==
  XMLDecl
  \o "\n"
  \o "<w:hdr xmlns:w=\"" \o WordMLNS \o "\" "
  \o "xmlns:r=\"" \o OfficeDocumentNS \o "\" "
  \o "xmlns:v=\"urn:schemas-microsoft-com:vml\" "
  \o "xmlns:o=\"urn:schemas-microsoft-com:office:office\">"
  \o "\n"
  \o watermarkXML
  \o "\n"
  \o "</w:hdr>"

\* createWatermarkHeader once the name is chosen: the header is written
\* under it, then registered.
headerCreated(p, headerFile, watermarkXML) ==
  SectionResult(
    headerRegistered(writeFile(p, "word/" \o headerFile,
                               watermarkHeader(watermarkXML)),
                     headerFile, getNextRelIDFromFile(p.rels),
                     LastIndex(p.doc, "<w:sectPr")),
    "", headerFile, "")

createWatermarkHeader(p, watermarkXML) ==
  headerCreated(p, headerFileName(p.files, 1), watermarkXML)

\* injectWatermarkIntoHeader once the header was read and has its
\* namespaces.
headerInjected(p, headerFile, name, content, watermarkXML) ==
  LET hdrIdx == Index(content, "<w:hdr")
      hdrCloseIdx == Index(From(content, hdrIdx), ">")
  IN IF hdrIdx = -1
     THEN SectionResult(p, "could not find <w:hdr> element", "", "")
     ELSE IF hdrCloseIdx = -1
     THEN SectionResult(p, "malformed <w:hdr> element", "", "")
     ELSE SectionResult(
            writeFile(p, name,
                      insertAt(content, hdrIdx + hdrCloseIdx + 1,
                               "\n" \o watermarkXML)),
            "", "", headerFile)

\* os.ReadFile(headerPath) fails as the system reports it: the path is a
\* directory, leads through a file, or names nothing.
injectWatermarkIntoHeader(p, headerFile, watermarkXML) ==
  IF isDir(p, headerPath(p.tempDir, headerFile))
  THEN SectionResult(p, "read header " \o headerFile \o ": read "
                        \o headerPath(p.tempDir, headerFile)
                        \o ": is a directory",
                     "", "")
  ELSE IF throughFile(p, headerPath(p.tempDir, headerFile))
  THEN SectionResult(p, "read header " \o headerFile \o ": open "
                        \o headerPath(p.tempDir, headerFile)
                        \o ": not a directory",
                     "", "")
  ELSE IF partName(p, headerPath(p.tempDir, headerFile)) \notin p.files
  THEN SectionResult(p, "read header " \o headerFile \o ": open "
                        \o headerPath(p.tempDir, headerFile)
                        \o ": no such file or directory",
                     "", "")
  ELSE headerInjected(p, headerFile,
                      partName(p, headerPath(p.tempDir, headerFile)),
                      ensureVMLNamespaces(
                        readFile(p, partName(p, headerPath(p.tempDir,
                                                           headerFile)))),
                      watermarkXML)

\* The error of a step of SetTextWatermark under the name of the step.
stepWrapped(r, step) ==
  IF r.err = "" THEN r ELSE [r EXCEPT !.err = step \o ": " \o @]

\* SetTextWatermark once the default header was looked up.
headerFound(p, headerFile, watermarkXML) ==
  IF headerFile # ""
  THEN stepWrapped(injectWatermarkIntoHeader(p, headerFile, watermarkXML),
                   "inject watermark")
  ELSE stepWrapped(createWatermarkHeader(p, watermarkXML),
                   "create watermark header")

\* The options of SetTextWatermark with its defaults applied.
watermarkDefaults(opts) ==
  [opts EXCEPT
     !.FontFamily = IF @ = "" THEN "Calibri" ELSE @,
     !.Color = normalizedColor(IF @ = "" THEN "C0C0C0" ELSE @),
     !.Opacity = IF @ <= 0 THEN 50 ELSE IF @ > 100 THEN 100 ELSE @]

SetTextWatermark(p, opts) ==
  IF opts.Text = ""
  THEN SectionResult(p, "watermark text cannot be empty", "", "")
  ELSE headerFound(p, findDefaultHeaderFile(p),
                   generateWatermarkShapeXML(watermarkDefaults(opts)))

(***************************************************************************)
(* The section specification: sequences of SetPageNumber and               *)
(* SetTextWatermark on packages that differ in their section properties    *)
(* and in the header parts they hold.                                      *)
(***************************************************************************)

\* The body of TestSetPageNumber_ReplaceExisting and its variants: no
\* section properties, plain ones, ones with page numbering, and an
\* earlier section with page numbering of its own before plain ones.
SectionKinds == {"none", "plain", "numbered", "earlier"}

SectionBody(kind) ==
  "<w:p><w:r><w:t>Content</w:t></w:r></w:p>"
  \o (IF kind = "earlier"
      THEN "<w:p><w:pPr><w:sectPr><w:pgNumType w:start=\"3\" w:fmt=\"lowerRoman\"/>"
           \o "</w:sectPr></w:pPr></w:p>"
      ELSE "")
  \o (IF kind = "none" THEN ""
      ELSE "<w:sectPr>"
           \o (IF kind = "numbered"
               THEN "<w:pgNumType w:start=\"1\" w:fmt=\"decimal\"/>" ELSE "")
           \o "<w:pgSz w:w=\"12240\" w:h=\"15840\"/></w:sectPr>")

\* The header of TestSetTextWatermark_WithExistingHeader.
ExistingHeader ==
  XMLDecl
  \o "<w:hdr xmlns:w=\"" \o WordMLNS \o "\" "
  \o "xmlns:r=\"" \o OfficeDocumentNS \o "\">"
  \o "<w:p><w:r><w:t>Existing Header</w:t></w:r></w:p></w:hdr>"

\* What the default header part holds: the header of the test, the header
\* of TestEnsureVMLNamespaces_AlreadyPresent, nothing, a header in a
\* default namespace, and a header cut inside its opening tag.
HeaderKinds == {"existing", "vml", "empty", "unprefixed", "cut"}

HeaderOf(kind) ==
  CASE kind = "existing" -> ExistingHeader
    [] kind = "vml" ->
         "<w:hdr xmlns:v=\"urn:schemas-microsoft-com:vml\" xmlns:w=\""
         \o WordMLNS \o "\"><w:p/></w:hdr>"
    [] kind = "empty" -> ""
    [] kind = "unprefixed" -> "<hdr xmlns=\"x\"><p/></hdr>"
    [] kind = "cut" -> "<?xml version=\"1.0\"?><w:hdr xmlns:w=\"x\""

\* The targets of the relationship of the default header: the part, the
\* part by a path that is not clean, a part that is not there, the
\* directory of the parts, and a path that leads through the part.
HeaderTargets ==
  {"header1.xml", "./header1.xml", "header2.xml", ".", "header1.xml/x"}

\* headers: the package holds header1.xml to headerN.xml; ref: the section
\* refers to a default header, as in
\* TestSetTextWatermark_WithExistingHeader; target: the target of its
\* relationship; hdr: what header1.xml holds; dir: the directory the
\* package was extracted to.
SectionShapes ==
  {sh \in [kind : SectionKinds,
           headers : {0, 1, HeaderNameLimit - 1, HeaderNameLimit},
           ref : BOOLEAN, target : HeaderTargets, hdr : HeaderKinds,
           dir : TempDirs] :
     /\ sh.ref => (sh.headers = 1 /\ sh.kind = "plain")
     /\ (~sh.ref \/ sh.target # "header1.xml") => sh.hdr = "existing"
     /\ ~sh.ref => sh.target = "header1.xml"}

\* The header parts header1.xml to headerN.xml, the first holding first.
RECURSIVE HeaderParts(_, _)
HeaderParts(n, first) ==
  IF n = 0 THEN NoHeaders
  ELSE (("word/header" \o ToStr(n) \o ".xml")
          :> (IF n = 1 THEN first ELSE ExistingHeader))
       @@ HeaderParts(n - 1, first)

\* The document of TestSetTextWatermark_WithExistingHeader around a body.
ExistingHeaderDoc(bodyContent) ==
  XMLDecl
  \o "<w:document xmlns:w=\"" \o WordMLNS \o "\" "
  \o "xmlns:r=\"" \o OfficeDocumentNS \o "\">"
  \o "<w:body>" \o bodyContent \o "</w:body></w:document>"

SectionDoc(sh) ==
  IF sh.ref
  THEN ExistingHeaderDoc(
         Replace1(SectionBody(sh.kind), "<w:sectPr>",
                  "<w:sectPr><w:headerReference w:type=\"default\" "
                  \o "r:id=\"rId1\"/>"))
  ELSE buildIntegrationFixture(SectionBody(sh.kind))

\* The package of TestSetTextWatermark_WithExistingHeader when the section
\* refers to a header, and the package of TestSetTextWatermark_Integration
\* and TestSetPageNumber_ReplaceExisting, with header parts that nothing
\* refers to, when it does not.
SectionPkg(sh) ==
  [buildIntegrationDocxFromParts(SectionDoc(sh), "", "") EXCEPT
     !.rels = IF sh.ref
              THEN Replace1(@, "</Relationships>",
                            RelOf("rId1", "header", sh.target)
                            \o "</Relationships>")
              ELSE @,
     !.files = @ \cup DOMAIN HeaderParts(sh.headers, HeaderOf(sh.hdr)),
     !.headers = HeaderParts(sh.headers, HeaderOf(sh.hdr))]

\* The options of SetPageNumber: a format the package declares and the
\* default, and a format the type admits that holds a "$", which the
\* replacement of an existing element expands.
PageNumberInputs ==
  [Start : {-1, 0, 5}, Format : {"", "upperRoman"}]
  \cup {[Start |-> 0, Format |-> "x$0"]}

\* After TestSetTextWatermark_EmptyText, TestSetTextWatermark_Integration
\* and TestSetTextWatermark_WithExistingHeader, and a text to escape with
\* every default.
WatermarkInputs ==
  {WatermarkOptions("", "", "", 0, FALSE),
   WatermarkOptions("DRAFT", "", "C0C0C0", 50, TRUE),
   WatermarkOptions("CONFIDENTIAL", "", "FF0000", 70, FALSE),
   WatermarkOptions("A&B", "Arial", "", 150, TRUE)}

InitSection ==
  /\ shape \in SectionShapes
  /\ Loaded(SectionPkg(shape))
  /\ steps = 0
  /\ op = "init"
  /\ args = <<>>
  /\ err = ""
  /\ ret = [written |-> "", injected |-> ""]
  /\ pre = Pkg

SectionDone(name, a, r) ==
  /\ steps < MaxOps
  /\ doc' = r.p.doc
  /\ rels' = r.p.rels
  /\ ctypes' = r.p.ctypes
  /\ files' = r.p.files
  /\ headers' = r.p.headers
  /\ op' = name
  /\ args' = a
  /\ err' = r.err
  /\ ret' = [written |-> r.written, injected |-> r.injected]
  /\ pre' = Pkg
  /\ steps' = steps + 1
  /\ UNCHANGED <<footnotes, endnotes, comments, styles, shape>>

PageNumber ==
  \E opts \in PageNumberInputs :
    SectionDone("SetPageNumber", <<opts>>, SetPageNumber(Pkg, opts))

Watermark ==
  \E opts \in WatermarkInputs :
    SectionDone("SetTextWatermark", <<opts>>, SetTextWatermark(Pkg, opts))

NextSection == PageNumber \/ Watermark

SpecSection == InitSection /\ [][NextSection]_vars

(***************************************************************************)
(* The manifest specification: the public operations that register parts,  *)
(* on packages whose manifests are damaged or incomplete: a                *)
(* document.xml.rels without its closing </Relationships>, a               *)
(* [Content_Types].xml without its closing </Types>, note parts that exist *)
(* while neither manifest lists them, an embedded workbook under the name  *)
(* of the next chart's.                                                    *)
(***************************************************************************)

\* The buffer s up to its last closing tag closer.
Unclosed(s, closer) == Slice(s, 0, LastIndex(s, closer))

\* listed: the manifests list the note parts and the styles part the
\* package holds.  The built package is the one of
\* TestAddStyle_WithExistingStyles: a styles part that no manifest lists.
ManifestShapes ==
  {sh \in [prior : BOOLEAN, xlsx : {FALSE}, styled : BOOLEAN, listed : BOOLEAN,
           relsClosed : BOOLEAN, typesClosed : BOOLEAN, built : BOOLEAN] :
     IF sh.built
     THEN ~sh.prior /\ sh.styled /\ ~sh.listed /\ sh.relsClosed /\ sh.typesClosed
     ELSE IF sh.listed THEN ~(sh.relsClosed /\ sh.typesClosed)
     ELSE sh.prior /\ sh.relsClosed /\ sh.typesClosed}

ManifestRels(sh) ==
  IF sh.relsClosed
  THEN PkgRels([prior |-> sh.prior /\ sh.listed,
                styled |-> sh.styled /\ sh.listed])
  ELSE Unclosed(PkgRels(sh), "</Relationships>")

ManifestContentTypes(sh) ==
  IF sh.typesClosed
  THEN PkgContentTypes([prior |-> sh.prior /\ sh.listed, xlsx |-> sh.xlsx,
                        styled |-> sh.styled /\ sh.listed])
  ELSE Unclosed(PkgContentTypes(sh), "</Types>")

\* A package with prior content also holds an embedded workbook that is
\* numbered one higher than its chart, as when workbooks and charts are
\* numbered apart.
ManifestFiles(sh) ==
  PkgFiles(sh)
  \cup (IF sh.prior THEN {"word/embeddings/Microsoft_Excel_Worksheet3.xlsx"}
        ELSE {})

ManifestPkg(sh) ==
  IF sh.built THEN PkgOf(sh)
  ELSE [PkgOf(sh) EXCEPT !.rels = ManifestRels(sh),
                         !.ctypes = ManifestContentTypes(sh),
                         !.files = ManifestFiles(sh)]

InitManifest ==
  /\ shape \in ManifestShapes
  /\ Loaded(ManifestPkg(shape))
  /\ steps = 0
  /\ op = "init"
  /\ args = <<>>
  /\ err = ""
  /\ ret = [ids |-> {}, chartIndex |-> 0, relID |-> ""]
  /\ pre = Pkg

NextManifest ==
  Footnote \/ Endnote \/ Comment \/ Style \/ Chart \/ ChartRejection

SpecManifest == InitManifest /\ [][NextManifest]_vars

(***************************************************************************)
(* The body specification: one operation applied to one body.  A body is   *)
(* a sequence of tables between labelled paragraphs, the split paragraph,  *)
(* an optional section break carried by a paragraph, the second paragraph  *)
(* and the optional final section properties.                              *)
(***************************************************************************)

\* The rows and cells of the tables of a body.
BodyGrid == [nR |-> 2, nC |-> 2]

BodyTable(t) == "<w:tbl><w:tblPr/>" \o FixtureRows(BodyGrid, t, 1) \o "</w:tbl>"

RECURSIVE BodyTables(_, _)
BodyTables(sh, t) ==
  IF t > sh.nT THEN ""
  ELSE BodyTable(t) \o FixturePara(t) \o BodyTables(sh, t + 1)

FinalSectPr == "<w:sectPr><w:pgSz w:w=\"12240\" w:h=\"15840\"/></w:sectPr>"

SectionBreakPara ==
  "<w:p><w:pPr><w:sectPr><w:pgSz w:w=\"12240\" w:h=\"15840\"/></w:sectPr>"
  \o "</w:pPr></w:p>"

\* The drawings of a body, after the documents of the deletion tests: as
\* many pictures and charts as tables, each in a paragraph of its own.
BodyImage(t) ==
  "<w:p><w:r><w:drawing><wp:inline><a:blip r:embed=\"rId" \o ToStr(10 + t)
  \o "\"/></wp:inline></w:drawing></w:r></w:p>"

BodyChart(t) ==
  "<w:p><w:r><w:drawing><wp:inline><c:chart r:id=\"rId" \o ToStr(20 + t)
  \o "\"/></wp:inline></w:drawing></w:r></w:p>"

RECURSIVE BodyDrawings(_, _)
BodyDrawings(sh, t) ==
  IF t > sh.nT THEN ""
  ELSE BodyImage(t) \o BodyChart(t) \o BodyDrawings(sh, t + 1)

\* The runs of a paragraph that mixes text with structural markers, after
\* the paragraph of TestConvertRunsToDeleted_PreservesNonTextRuns: a text
\* run, a footnote reference run, a run of a break and a run of a tab.
MarkerRuns ==
  <<"<w:r><w:t>Marked</w:t></w:r>",
    "<w:r><w:footnoteReference w:id=\"1\"/></w:r>",
    "<w:r><w:br/></w:r>",
    "<w:r><w:tab/></w:r>">>

MarkerPara ==
  "<w:p>" \o MarkerRuns[1] \o MarkerRuns[2] \o MarkerRuns[3] \o MarkerRuns[4]
  \o "</w:p>"

BodyDoc(sh) ==
  DocOpen \o (IF sh.empty THEN "<w:p/>" ELSE FixturePara(0))
  \o BodyTables(sh, 1) \o SplitPara
  \o (IF sh.sect THEN SectionBreakPara ELSE "") \o SecondPara
  \o MarkerPara \o BodyDrawings(sh, 1)
  \o (IF sh.final THEN FinalSectPr ELSE "") \o "</w:body></w:document>"

\* A section break inside the body implies final section properties.
BodyShapes ==
  {sh \in [nT : 0..MaxTables, empty : BOOLEAN, sect : BOOLEAN, final : BOOLEAN] :
     sh.sect => sh.final}

\* The inputs of the body operations.
\* "o" occurs in the split paragraph and in the second paragraph.
BodyAnchors == Anchors \cup {"o"}

DeleteTexts == {"", "T111", "hello world", "Second", "Hello", "Absent"}

DeleteFlags == [MatchCase : BOOLEAN, WholeWord : BOOLEAN]

TOCInserts ==
  {[Title |-> "", OutlineLevels |-> "", Position |-> position, Anchor |-> ""] :
     position \in {PositionBeginning, PositionEnd, PositionAfterText,
                   PositionBeforeText, PositionInvalid}}
  \cup {[Title |-> "Contents", OutlineLevels |-> "1-2", Position |-> position,
         Anchor |-> anchor] :
          position \in {PositionAfterText, PositionBeforeText},
          anchor \in BodyAnchors}

BreakInserts ==
  [Position : {PositionBeginning, PositionEnd, PositionAfterText,
               PositionBeforeText, PositionInvalid},
   Anchor : BodyAnchors \cup {""}]

InitBody ==
  /\ shape \in BodyShapes
  /\ Loaded(buildIntegrationDocxFromParts(BodyDoc(shape), "", ""))
  /\ op = "init"
  /\ args = <<>>
  /\ err = ""
  /\ ret = <<>>
  /\ steps = 0
  /\ pre = Pkg

\* What every body operation leaves: only document.xml may change.
BodyDone(name, a, r) ==
  /\ op = "init"
  /\ op' = name
  /\ args' = a
  /\ err' = r.err
  /\ doc' = r.doc
  /\ ret' = <<>>
  /\ pre' = Pkg
  /\ steps' = steps + 1
  /\ UNCHANGED <<rels, ctypes, footnotes, endnotes, comments, styles, files,
                 headers, shape>>

BodyDeleteParagraphs ==
  \E text \in DeleteTexts : \E opts \in DeleteFlags :
    BodyDone("DeleteParagraphs", <<text, opts>>,
             DeleteParagraphs(doc, text, opts))

BodyDeleteTable ==
  \E n \in -1..(MaxTables + 1) :
    /\ n <= shape.nT + 1
    /\ BodyDone("DeleteTable", <<n>>, DeleteTable(doc, n))

BodyDeleteImage ==
  \E n \in -1..(MaxTables + 1) :
    /\ n <= shape.nT + 1
    /\ BodyDone("DeleteImage", <<n>>, DeleteImage(doc, n))

BodyDeleteChart ==
  \E n \in -1..(MaxTables + 1) :
    /\ n <= shape.nT + 1
    /\ BodyDone("DeleteChart", <<n>>, DeleteChart(doc, n))

BodyMergeHorizontal ==
  \E t \in {-1, 0, 1, shape.nT + 1} : \E row \in 0..2 : \E a \in 0..2 :
  \E b \in 0..2 :
    BodyDone("MergeTableCellsHorizontal", <<t, row, a, b>>,
                MergeTableCellsHorizontal(doc, t, row, a, b))

BodyMergeVertical ==
  \E t \in {-1, 0, 1, shape.nT + 1} : \E col \in 0..2 : \E r1 \in 0..2 :
  \E r2 \in 0..2 :
    BodyDone("MergeTableCellsVertical", <<t, r1, r2, col>>,
                MergeTableCellsVertical(doc, t, r1, r2, col))

BodyUpdateTableCell ==
  \E t \in {0, 1, shape.nT + 1} : \E row \in 0..3 : \E col \in 0..2 :
  \E value \in CellValues :
    BodyDone("UpdateTableCell", <<t, row, col, value>>,
             UpdateTableCell(doc, t, row, col, value))

BodyInsertTOC ==
  \E opts \in TOCInserts :
    BodyDone("InsertTOC", <<opts>>, InsertTOC(doc, opts))

\* The most steps taken on one body: InsertTOC, then UpdateTOC twice.
MaxTOCSteps == 3

\* UpdateTOC is applied to the body as built and to the one InsertTOC or an
\* earlier UpdateTOC left.
BodyUpdateTOC ==
  /\ op \in {"init", "InsertTOC", "UpdateTOC"}
  /\ steps < MaxTOCSteps
  /\ op' = "UpdateTOC"
  /\ args' = <<>>
  /\ err' = UpdateTOC(doc).err
  /\ doc' = UpdateTOC(doc).doc
  /\ ret' = <<>>
  /\ pre' = Pkg
  /\ steps' = steps + 1
  /\ UNCHANGED <<rels, ctypes, footnotes, endnotes, comments, styles, files,
                 headers, shape>>

BodyInsertPageBreak ==
  \E opts \in BreakInserts :
    BodyDone("InsertPageBreak", <<opts>>, InsertPageBreak(doc, opts))

\* DeleteTrackedText returns the package: its document is what it wrote.
BodyTrackedDeleted(r) == [doc |-> r.p.doc, err |-> r.err]

BodyTrackedDeletes ==
  TrackedDeletes \cup {[Anchor |-> "Marked", Author |-> "Rev", Date |-> ""]}

BodyDeleteTrackedText ==
  \E opts \in BodyTrackedDeletes :
    BodyDone("DeleteTrackedText", <<opts>>,
             BodyTrackedDeleted(DeleteTrackedText(Pkg, opts)))

\* A count asked of the body: nothing is written.
BodyGetParagraphCount ==
  /\ op = "init"
  /\ op' = "GetParagraphCount"
  /\ args' = <<>>
  /\ err' = ""
  /\ ret' = <<GetParagraphCount(doc)>>
  /\ pre' = Pkg
  /\ steps' = steps + 1
  /\ UNCHANGED <<doc, rels, ctypes, footnotes, endnotes, comments, styles,
                 files, headers, shape>>

NextBody ==
  \/ BodyDeleteParagraphs \/ BodyDeleteTable \/ BodyDeleteImage
  \/ BodyDeleteChart
  \/ BodyMergeHorizontal \/ BodyMergeVertical \/ BodyUpdateTableCell
  \/ BodyInsertTOC \/ BodyUpdateTOC
  \/ BodyInsertPageBreak \/ BodyDeleteTrackedText \/ BodyGetParagraphCount

SpecBody == InitBody /\ [][NextBody]_vars

(***************************************************************************)
(* Where the fixture's elements lie, from the way the fixture was built    *)
(* (no search): the expectations the locator and the merges are held to.   *)
(***************************************************************************)

RECURSIVE TableOff(_, _)
TableOff(sh, t) ==
  IF t = 1 THEN Len(DocOpen) + Len(FixturePara(0))
  ELSE TableOff(sh, t - 1) + Len(FixtureTable(sh, t - 1)) + Len(FixturePara(t - 1))

RECURSIVE RowOff(_, _, _)
RowOff(sh, t, r) ==
  IF r = 1 THEN TableOff(sh, t) + Len(TableOpen(t))
  ELSE RowOff(sh, t, r - 1) + Len(FixtureRow(sh, t, r - 1))

RECURSIVE CellOff(_, _, _, _)
CellOff(sh, t, r, c) ==
  IF c = 1 THEN RowOff(sh, t, r) + Len(RowOpen(t, r))
  ELSE CellOff(sh, t, r, c - 1) + Len(FixtureCell(t, r, c - 1))

\* The elements of one tag, as <<table, row, cell>> (0 where it does not apply).
Coords(sh, tag) ==
  IF tag = "w:tbl" THEN {<<t, 0, 0>> : t \in 1..sh.nT}
  ELSE IF tag = "w:tr" THEN {<<t, r, 0>> : t \in 1..sh.nT, r \in 1..sh.nR}
  ELSE {x \in {<<t, r, c>> : t \in 1..sh.nT, r \in 1..sh.nR, c \in 1..sh.nC} :
          x[3] <= RowCols(sh, x[2])}

Before(x, y) ==
  \/ x[1] < y[1]
  \/ x[1] = y[1] /\ x[2] < y[2]
  \/ x[1] = y[1] /\ x[2] = y[2] /\ x[3] < y[3]

\* The n-th element of tag in document order.
NthCoord(sh, tag, n) ==
  CHOOSE x \in Coords(sh, tag) :
    Cardinality({y \in Coords(sh, tag) : Before(y, x)}) = n - 1

ElementOff(sh, tag, x) ==
  IF tag = "w:tbl" THEN TableOff(sh, x[1])
  ELSE IF tag = "w:tr" THEN RowOff(sh, x[1], x[2])
  ELSE CellOff(sh, x[1], x[2], x[3])

ElementStr(sh, tag, x) ==
  IF tag = "w:tbl" THEN FixtureTable(sh, x[1])
  ELSE IF tag = "w:tr" THEN FixtureRow(sh, x[1], x[2])
  ELSE FixtureCell(x[1], x[2], x[3])

\* The number of occurrences of sub in s.
CountOf(s, sub) == Cardinality(Occurrences(s, sub))

\* The cell of s around the (unique) label txt.
CellAround(s, txt) ==
  LET p == Index(s, txt)
      cs == SetMax({i \in Occurrences(s, "<w:tc>") \cup Occurrences(s, "<w:tc ") :
                      i < p})
  IN Slice(s, cs, p + Index(From(s, p), "</w:tc>") + Len("</w:tc>"))

(***************************************************************************)
(* C1: on a buffer whose elements of the tag do not nest,                  *)
(* findNthXMLBlock(buffer, tag, n) returns, for 1 <= n <= count, the span  *)
(* of the n-th element in document order, with start <= end <= len, its    *)
(* content starting with "<tag" and ending with "</tag>"; for n > count it *)
(* returns the not-found error and no span.                                *)
(***************************************************************************)
C1_FindNthBlock ==
  op = "FindBlock" =>
    LET tag == args[1]
        n == args[2]
        content == Slice(doc, ret[1], ret[2])
    IN IF n <= Cardinality(Coords(shape, tag))
       THEN LET x == NthCoord(shape, tag, n)
            IN /\ err = ""
               /\ 0 <= ret[1] /\ ret[1] <= ret[2] /\ ret[2] <= Len(doc)
               /\ HasPrefix(content, "<" \o tag)
               /\ HasSuffix(content, "</" \o tag \o ">")
               /\ ret[1] = ElementOff(shape, tag, x)
               /\ content = ElementStr(shape, tag, x)
       ELSE /\ err = "only " \o ToStr(Cardinality(Coords(shape, tag))) \o " "
                     \o tag \o " element(s) found"
            /\ ret = <<0, 0>>

\* A second row or later is found, its open tag in the attribute form.
C1_Witness ==
  /\ op = "FindBlock" /\ err = "" /\ args[1] = "w:tr" /\ args[2] >= 2
  /\ HasPrefix(Slice(doc, ret[1], ret[2]), "<w:tr ")

(***************************************************************************)
(* C2: a successful horizontal merge of columns [a,b] of a row reduces the *)
(* row's cell count by exactly b-a; the surviving cell at position a       *)
(* carries a gridSpan of exactly b-a+1 and keeps its content; the content  *)
(* of every deleted cell a+1..b is absent from the result.                 *)
(***************************************************************************)
C2_HorizontalMerge ==
  (op = "MergeHorizontal" /\ err = "") =>
    LET t == args[1]
        row == args[2]
        a == args[3]
        b == args[4]
        rowOff == RowOff(shape, t, row)
        rowEnd == rowOff + Len(FixtureRow(shape, t, row))
        newRow == Slice(doc, rowOff, Len(doc) - (Len(pre.doc) - rowEnd))
        cellOff == CellOff(shape, t, row, a) - rowOff
        cell == Slice(newRow, cellOff,
                      cellOff + Index(From(newRow, cellOff), "</w:tc>")
                      + Len("</w:tc>"))
    IN /\ b <= RowCols(shape, row)
       /\ CountOpen(newRow, "w:tc") = RowCols(shape, row) - (b - a)
       /\ CountOf(newRow, "</w:tc>") = RowCols(shape, row) - (b - a)
       /\ HasPrefix(cell, "<w:tc")
       /\ CountOf(cell, "<w:gridSpan ") = 1
       /\ Contains(cell, "<w:tcPr") /\ Contains(cell, "</w:tcPr>")
       /\ Index(cell, "<w:tcPr") < Index(cell, "<w:gridSpan w:val=\""
                                              \o ToStr(b - a + 1) \o "\"/>")
       /\ Index(cell, "<w:gridSpan ") < Index(cell, "</w:tcPr>")
       /\ Contains(cell, CellPara(t, row, a))
       /\ \A j \in (a + 1)..b : ~Contains(doc, CellText(t, row, j))
       /\ \A j \in 1..RowCols(shape, row) :
            (j < a \/ j > b) => Contains(newRow, FixtureCell(t, row, j))

\* Three cells were merged into one.
C2_Witness ==
  op = "MergeHorizontal" /\ err = "" /\ args[4] - args[3] = 2

(***************************************************************************)
(* C3: a successful vertical merge of rows [r1,r2] in column c annotates   *)
(* exactly r2-r1+1 cells, one per row in column c: the cell of row r1 with *)
(* vMerge restart, each cell of rows r1+1..r2 with the continuation; row   *)
(* and cell counts are unchanged and every cell's text is still present.   *)
(***************************************************************************)
C3_VerticalMerge ==
  (op = "MergeVertical" /\ err = "") =>
    LET t == args[1]
        r1 == args[2]
        r2 == args[3]
        col == args[4]
    IN /\ CountOf(doc, "<w:vMerge") = r2 - r1 + 1
       /\ CountOf(doc, "<w:vMerge w:val=\"restart\"/>") = 1
       /\ CountOf(doc, "<w:vMerge/>") = r2 - r1
       /\ \A r \in r1..r2 :
            LET cell == CellAround(doc, CellText(t, r, col))
            IN /\ CountOf(cell, "<w:vMerge") = 1
               /\ Contains(cell, IF r = r1 THEN "<w:vMerge w:val=\"restart\"/>"
                                 ELSE "<w:vMerge/>")
               /\ Index(cell, "<w:tcPr") < Index(cell, "<w:vMerge")
               /\ Index(cell, "<w:vMerge") < Index(cell, "</w:tcPr>")
       /\ \A tag \in Tags : CountOpen(doc, tag) = CountOpen(pre.doc, tag)
       /\ \A x \in Coords(shape, "w:tc") :
            Contains(doc, CellPara(x[1], x[2], x[3]))

\* Three rows were merged: one start and two continuations.
C3_Witness ==
  op = "MergeVertical" /\ err = "" /\ args[3] - args[2] = 2

(***************************************************************************)
(* C4: a successful horizontal or vertical merge addressed to table t      *)
(* changes only table t: every byte outside table t's span, in particular  *)
(* every other table, is identical to the input.                           *)
(***************************************************************************)
C4_MergeFrame ==
  (op \in {"MergeHorizontal", "MergeVertical"} /\ err = "") =>
    LET t == args[1]
        off == TableOff(shape, t)
        sfx == From(pre.doc, off + Len(FixtureTable(shape, t)))
        tbl == Slice(doc, off, Len(doc) - Len(sfx))
    IN /\ Slice(doc, 0, off) = Slice(pre.doc, 0, off)
       /\ HasSuffix(doc, sfx)
       /\ off <= Len(doc) - Len(sfx)
       /\ HasPrefix(tbl, "<w:tbl") /\ HasSuffix(tbl, "</w:tbl>")
       /\ CountOpen(tbl, "w:tbl") = 1
       /\ tbl # FixtureTable(shape, t)
       /\ \A u \in 1..shape.nT : u # t => Contains(doc, FixtureTable(shape, u))

\* A merge over the columns 1 to 3 of row 1 of the second of three tables:
\* the first table lies before the changed span and the third after it.
C4_Witness ==
  /\ op = "MergeHorizontal" /\ err = ""
  /\ args = <<2, 1, 1, 3>> /\ shape.nT = 3
  /\ Contains(doc, FixtureTable(shape, 1))
  /\ Contains(doc, FixtureTable(shape, 3))
  /\ ~Contains(doc, FixtureTable(shape, 2))

(***************************************************************************)
(* C10: when MergeTableCellsVertical fails at any row of startRow..endRow, *)
(* document.xml is byte-identical to its content before the call.          *)
(***************************************************************************)
C10_VerticalFailureKeepsDoc ==
  (op = "MergeVertical" /\ err # "") => doc = pre.doc

\* The failure came at a row after the first, earlier rows being annotated.
C10_Witness ==
  /\ op = "MergeVertical" /\ doc = pre.doc
  /\ \/ HasPrefix(err, "row " \o ToStr(shape.nR + 1) \o " not found")
     \/ HasPrefix(err, "cell at row " \o ToStr(shape.nR) \o " col ")
  /\ args[2] < shape.nR

(***************************************************************************)
(* What the package holds, read off its parts without the allocators.      *)
(***************************************************************************)

\* The ids of a namespace that the part the allocator scans holds in p.
PresentIds(p, namespace) ==
  IF namespace = "footnote" THEN scanIDs(p.footnotes, "w:id=\"")
  ELSE IF namespace = "endnote" THEN scanIDs(p.endnotes, "w:id=\"")
  ELSE IF namespace = "comment" THEN scanIDs(p.comments, "w:id=\"")
  ELSE scanIDs(p.doc, "<w:ins w:id=\"") \cup scanIDs(p.doc, "<w:del w:id=\"")

\* The number of elements of a namespace that carry an id in p.
CountIds(p, namespace) ==
  IF namespace = "footnote" THEN Cardinality(AttrMatches(p.footnotes, "w:id=\""))
  ELSE IF namespace = "endnote"
  THEN Cardinality(AttrMatches(p.endnotes, "w:id=\""))
  ELSE IF namespace = "comment"
  THEN Cardinality(AttrMatches(p.comments, "w:id=\""))
  ELSE Cardinality(AttrMatches(p.doc, "<w:ins w:id=\""))
       + Cardinality(AttrMatches(p.doc, "<w:del w:id=\""))

Namespaces == {"footnote", "endnote", "comment", "revision"}

\* The path of the n-th chart part, and the target a relationship names it by.
ChartFile(n) == "word/charts/chart" \o ToStr(n) \o ".xml"

ChartTarget(n) == "charts/chart" \o ToStr(n) \o ".xml"

ChartOverride(n) == "<Override PartName=\"/" \o ChartFile(n) \o "\""

\* The extension of a part name.
Ext(f) == From(f, LastIndex(f, ".") + 1)

HasDefault(types, ext) == Contains(types, "<Default Extension=\"" \o ext \o "\"")

HasOverride(types, f) == Contains(types, "<Override PartName=\"/" \o f \o "\"")

(***************************************************************************)
(* C5: in every sequence of InsertFootnote, InsertEndnote, InsertComment,  *)
(* InsertTrackedText and DeleteTrackedText calls, every id issued for a    *)
(* namespace is strictly greater than every id of that namespace that the  *)
(* scanned part held when the call started, and no two footnotes, no two   *)
(* endnotes, no two comments and no two revision marks share an id.        *)
(***************************************************************************)
C5_IssuedIdsFresh ==
  /\ \A x \in ret.ids : \A y \in PresentIds(pre, x[1]) : x[2] > y
  /\ \A ns \in Namespaces : CountIds(Pkg, ns) = Cardinality(PresentIds(Pkg, ns))

\* A second footnote on a package whose footnotes had the ids 0, 5 and 2:
\* the first call drew 6, this one draws 7.
C5_Witness ==
  /\ op = "InsertFootnote" /\ err = "" /\ steps = 2 /\ shape.prior
  /\ ret.ids = {<<"footnote", 7>>}
  /\ PresentIds(Pkg, "footnote") = {0, 2, 5, 6, 7}

(***************************************************************************)
(* C6: each InsertChart uses a chart index, a relationship id and an       *)
(* override part name that were not in use before the call, whatever chart *)
(* files were present (a chart file no relationship refers to included);   *)
(* two charts inserted one after the other into a package without charts   *)
(* give chart1.xml and chart2.xml, two distinct relationship ids and two   *)
(* overrides.                                                              *)
(***************************************************************************)
C6_ChartsDoNotCollide ==
  (op = "InsertChart" /\ ret.chartIndex > 0) =>
    /\ ChartFile(ret.chartIndex) \notin pre.files
    /\ ChartFile(ret.chartIndex) \in files
    /\ ~Contains(pre.ctypes, ChartOverride(ret.chartIndex))
    /\ ret.relID # ""
    /\ ~Contains(pre.rels, "Id=\"" \o ret.relID \o "\"")
    /\ CountOf(rels, "Id=\"" \o ret.relID \o "\"") = 1
    /\ err = "" => CountOf(ctypes, ChartOverride(ret.chartIndex)) = 1
    /\ (err = "" /\ ~shape.prior /\ Contains(pre.ctypes, ChartOverride(1))
        /\ ChartFile(2) \notin pre.files) =>
         /\ ret.chartIndex = 2
         /\ {ChartFile(1), ChartFile(2)} \subseteq files
         /\ CountOf(ctypes, "<Override PartName=\"/word/charts/") = 2
         /\ CountOf(ctypes, ChartOverride(1)) = 1
         /\ CountOf(rels, "/chart\" Target=\"") = 2
         /\ Cardinality(scanIDs(rels, "Id=\"rId"))
            = Cardinality(AttrMatches(rels, "Id=\"rId"))

\* The second of two charts inserted into a package that had none.
C6_Witness ==
  /\ op = "InsertChart" /\ err = "" /\ ~shape.prior /\ steps = 2
  /\ ret.chartIndex = 2 /\ ret.relID = "rId3"
  /\ Contains(pre.rels, "Id=\"rId2\"")

(***************************************************************************)
(* C7: every relationship id that document.xml refers to resolves to an    *)
(* entry of document.xml.rels, and after a successful InsertChart the      *)
(* entry of the id the new drawing refers to targets the chart part that   *)
(* the call created.                                                       *)
(***************************************************************************)
C7_ChartReferencesResolve ==
  /\ scanIDs(doc, "r:id=\"rId") \subseteq scanIDs(rels, "Id=\"rId")
  /\ (op = "InsertChart" /\ err = "") =>
       /\ CountOf(doc, "r:id=\"" \o ret.relID \o "\"")
          = CountOf(pre.doc, "r:id=\"" \o ret.relID \o "\"") + 1
       /\ Contains(rels, "<Relationship Id=\"" \o ret.relID \o "\" Type=\""
                         \o OfficeDocumentNS \o "/chart\" Target=\""
                         \o ChartTarget(ret.chartIndex) \o "\"/>")
       /\ ChartFile(ret.chartIndex) \in files \ pre.files

\* A chart inserted after a footnote, next to a chart file that was there:
\* the drawing refers to a relationship that targets the new chart3.xml.
C7_Witness ==
  /\ op = "InsertChart" /\ err = "" /\ shape.prior /\ steps = 2
  /\ ret.chartIndex = 3
  /\ Contains(doc, "<w:footnoteReference ")
  /\ Contains(doc, "r:id=\"" \o ret.relID \o "\"")

\* Every part among fs has a content type in types: a Default for its
\* extension or an Override of its own.
EveryPartTyped(fs, types) ==
  \A f \in fs \ {"[Content_Types].xml"} :
    HasDefault(types, Ext(f)) \/ HasOverride(types, f)

(***************************************************************************)
(* C8: after every successful InsertChart, InsertFootnote, InsertEndnote   *)
(* or InsertComment, every part of the package whose extension has no      *)
(* Default entry in [Content_Types].xml has an Override entry, the new     *)
(* chartN.xml and the embedded Microsoft_Excel_WorksheetN.xlsx included;   *)
(* stated of the calls on a package whose parts all had a content type.    *)
(***************************************************************************)
C8_EveryPartTyped ==
  (op \in {"InsertChart", "InsertFootnote", "InsertEndnote", "InsertComment"}
   /\ err = "" /\ EveryPartTyped(pre.files, pre.ctypes)) =>
    EveryPartTyped(files, ctypes)

(***************************************************************************)
(* C9: when InsertFootnote, InsertEndnote or InsertComment fails, every    *)
(* part it touched (the notes or comments part, document.xml.rels,         *)
(* [Content_Types].xml, document.xml) is as it was before the call.        *)
(***************************************************************************)
C9_FailedNoteLeavesNoTrace ==
  (op \in {"InsertFootnote", "InsertEndnote", "InsertComment"} /\ err # "") =>
    Pkg = pre

(***************************************************************************)
(* Registrations, read off the manifests.                                  *)
(***************************************************************************)

RelTargets == {"footnotes.xml", "endnotes.xml", "comments.xml", "styles.xml"}

\* The target the last call registers a relationship for ("" when none).
RegisteredTarget ==
  CASE op = "InsertFootnote" -> "footnotes.xml"
    [] op = "InsertEndnote" -> "endnotes.xml"
    [] op = "InsertComment" -> "comments.xml"
    [] op \in {"AddStyle", "ensureStylesRelationship"} -> "styles.xml"
    [] op = "addNoteRelationship" -> args[1]
    [] OTHER -> ""

RelationshipsTo(r, target) ==
  Cardinality(Occurrences(r, " Target=\"" \o target \o "\""))

\* The Id attribute values of the entries of a .rels buffer.
RelIds(r) ==
  {Slice(r, i + 5, i + 5 + Index(From(r, i + 5), "\"")) :
     i \in Occurrences(r, " Id=\"")}

\* The part name the last call registers a content type for ("" when none).
RegisteredPart ==
  CASE op = "addNoteContentType" -> "/word/" \o args[1]
    [] op = "addContentTypeOverride" ->
         "/word/charts/chart" \o ToStr(args[1]) \o ".xml"
    [] op = "ensureStylesRelationship" -> "/word/styles.xml"
    [] OTHER -> ""

RegisteredParts ==
  {"/word/" \o kind \o ".xml" : kind \in NoteParts \cup {"styles"}}
  \cup {"/word/charts/chart" \o ToStr(i) \o ".xml" : i \in 1..(MaxOps + 1)}

OverridesOf(ct, part) ==
  Cardinality(Occurrences(ct, "<Override PartName=\"" \o part \o "\""))

(***************************************************************************)
(* C11: after any sequence of InsertFootnote, InsertEndnote, InsertComment *)
(* and AddStyle calls and of direct registrations, document.xml.rels holds *)
(* at most one Relationship per target part and exactly one for the target *)
(* of a successful registering call (a direct registration, or a call that *)
(* created the part), the relationship ids are pairwise distinct, and a    *)
(* call whose target was registered before it leaves the .rels buffer as   *)
(* it was.                                                                 *)
(***************************************************************************)
C11_RegistrationIdempotent ==
  /\ \A t \in RelTargets : RelationshipsTo(rels, t) <= 1
  /\ (RegisteredTarget # "" /\ err = ""
      /\ (op \in {"addNoteRelationship", "ensureStylesRelationship"}
          \/ ("word/" \o RegisteredTarget) \notin pre.files))
       => RelationshipsTo(rels, RegisteredTarget) = 1
  /\ Cardinality(RelIds(rels)) = Cardinality(Occurrences(rels, " Id=\""))
  /\ (RegisteredTarget # "" /\ RelationshipsTo(pre.rels, RegisteredTarget) = 1)
       => rels = pre.rels

\* InsertFootnote creates footnotes.xml in a package whose .rels already
\* names it, after an earlier registration of the same target.
C11_Witness ==
  /\ op = "InsertFootnote"
  /\ ~shape.prior
  /\ "word/footnotes.xml" \notin pre.files
  /\ RelationshipsTo(pre.rels, "footnotes.xml") = 1
  /\ "word/footnotes.xml" \in files
  /\ rels = pre.rels

(***************************************************************************)
(* C12: a content-type registration succeeds; when the part name is        *)
(* already present [Content_Types].xml stays byte-identical; when it is    *)
(* new, one Override element and nothing else is inserted, ending where    *)
(* the closing </Types> tag begins (a line break apart at most); so there  *)
(* is always exactly one Override for a registered part name.              *)
(***************************************************************************)
C12_ContentTypeIdempotent ==
  LET pos == Index(pre.ctypes, "</Types>")
      grown == Len(ctypes) - Len(pre.ctypes)
  IN /\ \A part \in RegisteredParts : OverridesOf(ctypes, part) <= 1
     /\ RegisteredPart # "" =>
          /\ err = ""
          /\ OverridesOf(ctypes, RegisteredPart) = 1
          /\ IF OverridesOf(pre.ctypes, RegisteredPart) = 1
             THEN ctypes = pre.ctypes
             ELSE /\ grown > 0
                  /\ Slice(ctypes, 0, pos) = Slice(pre.ctypes, 0, pos)
                  /\ From(ctypes, pos + grown) = "</Types>"
                  /\ Cardinality(Occurrences(Slice(ctypes, pos, pos + grown),
                                             "<")) = 1
                  /\ Slice(ctypes, pos + grown - 3, pos + grown)
                       \in {"\"/>", "/>\n"}

\* A chart part name registered a second time, after the call that added it.
C12_Witness ==
  /\ op = "addContentTypeOverride"
  /\ steps = 2
  /\ OverridesOf(pre.ctypes, RegisteredPart) = 1
  /\ OverridesOf(PkgOf(shape).ctypes, RegisteredPart) = 0
  /\ ctypes = pre.ctypes

(***************************************************************************)
(* C13: the first id a call draws for a namespace is 1 when the scanned    *)
(* part holds no id of that namespace and the highest such id plus 1       *)
(* otherwise, ids of other namespaces in the same part not counted.        *)
(***************************************************************************)
C13_AllocatorsCountOwnNamespace ==
  \A ns \in Namespaces :
    {x \in ret.ids : x[1] = ns} # {} =>
      SetMin({x[2] : x \in {y \in ret.ids : y[1] = ns}})
        = (IF PresentIds(pre, ns) = {} THEN 1
           ELSE SetMax(PresentIds(pre, ns)) + 1)

(***************************************************************************)
(* Well-formedness of a buffer: every tag that opens is closed by the      *)
(* matching close tag, in order; declarations and self-closing tags        *)
(* neither open nor close.                                                 *)
(***************************************************************************)

\* The name in a tag: what lies between "<" or "</" and the first space,
\* "/" or ">".
TagName(tag) ==
  LET body == IF HasPrefix(tag, "</") THEN From(tag, 2) ELSE From(tag, 1)
      stops == {Index(body, " "), Index(body, "/"), Index(body, ">")}
  IN Slice(body, 0, SetMin({i \in stops : i >= 0}))

\* The tag that opens at offset lt, "" when no ">" follows within the
\* length of the longest tag the operations write.
TagAt(s, lt) ==
  LET window == Slice(s, lt, IF lt + 120 < Len(s) THEN lt + 120 ELSE Len(s))
  IN Slice(window, 0, Index(window, ">") + 1)

NoEffect == [ok |-> TRUE, closes |-> <<>>, opens |-> <<>>]

\* What one tag asks of its context: the elements it closes and the
\* elements it leaves open.
TagEffect(tag) ==
  IF tag = "" \/ Contains(From(tag, 1), "<")
  THEN [ok |-> FALSE, closes |-> <<>>, opens |-> <<>>]
  ELSE IF HasPrefix(tag, "<?") \/ HasSuffix(tag, "/>")
  THEN NoEffect
  ELSE IF HasPrefix(tag, "</")
  THEN [ok |-> TRUE, closes |-> <<TagName(tag)>>, opens |-> <<>>]
  ELSE [ok |-> TRUE, closes |-> <<>>, opens |-> <<TagName(tag)>>]

\* The effect of two consecutive stretches of tags: the close tags of the
\* right one meet the innermost open elements of the left one.
JoinEffects(l, r) ==
  LET k == IF Len(l.opens) < Len(r.closes) THEN Len(l.opens) ELSE Len(r.closes)
  IN [ok |-> /\ l.ok
             /\ r.ok
             /\ \A i \in 1..k : l.opens[Len(l.opens) - i + 1] = r.closes[i],
      closes |-> l.closes \o SubSeq(r.closes, k + 1, Len(r.closes)),
      opens |-> SubSeq(l.opens, 1, Len(l.opens) - k) \o r.opens]

\* The effect of the tags that open at the offsets i..j of s.
RECURSIVE TagsEffect(_, _, _)
TagsEffect(s, i, j) ==
  IF i = j
  THEN (IF SubSeq(s, i + 1, i + 1) = "<" THEN TagEffect(TagAt(s, i))
        ELSE NoEffect)
  ELSE JoinEffects(TagsEffect(s, i, (i + j) \div 2),
                   TagsEffect(s, (i + j) \div 2 + 1, j))

WellFormed(s) ==
  s = "" \/ TagsEffect(s, 0, Len(s) - 1) = NoEffect

\* C14: the body is well-formed XML, every opened tag closed and the tags
\* balanced, after every operation that touches it.
C14_BodyStaysWellFormed == WellFormed(doc)


(***************************************************************************)
(* Where the final section properties of a body lie, from the way the      *)
(* body was built.                                                         *)
(***************************************************************************)

BodyClose == "</w:body></w:document>"

FinalSectPrOffset(sh) == Len(BodyDoc(sh)) - Len(FinalSectPr \o BodyClose)

\* The field InsertTOC writes for opts.
TOCWritten(opts) ==
  generateTOCXML([opts EXCEPT !.OutlineLevels = IF @ = "" THEN "1-3" ELSE @])

\* C15: at position End on a body that ends with section properties, the
\* content is inserted exactly where the final body-level <w:sectPr> starts:
\* it becomes the last body child before the final section properties.
C15_EndBeforeFinalSectPr ==
  (op = "InsertTOC" /\ args[1].Position = PositionEnd /\ shape.final) =>
    /\ err = ""
    /\ doc = Slice(pre.doc, 0, FinalSectPrOffset(shape)) \o TOCWritten(args[1])
             \o FinalSectPr \o BodyClose

C15_Witness ==
  /\ op = "InsertTOC"
  /\ args[1].Position = PositionEnd
  /\ shape.final
  /\ shape.sect
  /\ shape.nT > 0
  /\ err = ""
  /\ Len(doc) > Len(pre.doc)

\* Where the split paragraph of a body lies, from the way the body was
\* built.
SplitParaOffset(sh) ==
  Len(DocOpen \o (IF sh.empty THEN "<w:p/>" ELSE FixturePara(0))
      \o BodyTables(sh, 1))

\* The anchors that the text of the split paragraph contains.
SplitAnchors == {"lo Wor", "o"}

\* C16: an anchor is matched against the concatenated text of the runs of a
\* paragraph: "lo Wor" matches the paragraph of the runs "Hello", " Wo",
\* "rld", and the span is that of the first paragraph whose text contains
\* the anchor.
C16_AnchorMatchesAcrossRuns ==
  /\ (op = "InsertTOC" /\ args[1].Anchor \in SplitAnchors) =>
       /\ err = ""
       /\ doc = insertAt(pre.doc,
                         IF args[1].Position = PositionAfterText
                         THEN SplitParaOffset(shape) + Len(SplitPara)
                         ELSE SplitParaOffset(shape),
                         TOCWritten(args[1]))
  /\ (op = "DeleteTrackedText" /\ args[1].Anchor \in SplitAnchors) =>
       /\ err = ""
       /\ doc # pre.doc
       /\ HasPrefix(doc, Slice(pre.doc, 0, SplitParaOffset(shape)))
       /\ HasSuffix(doc, From(pre.doc, SplitParaOffset(shape) + Len(SplitPara)))

C16_Witness ==
  /\ op = "InsertTOC"
  /\ args[1].Anchor = "lo Wor"
  /\ args[1].Position = PositionAfterText
  /\ shape.nT > 0
  /\ err = ""
  /\ Contains(doc, SplitPara \o generateTOCTitleXML("Contents"))

\* The anchors that no paragraph of a body contains.
AbsentAnchors == {"Missing"}

\* C17: an anchor that matches no paragraph is a hard error of every
\* anchor-relative operation, and document.xml is left as it was.
C17_MissingAnchorIsHardError ==
  /\ (/\ op \in {"InsertTOC", "InsertPageBreak"}
      /\ args[1].Position \in {PositionAfterText, PositionBeforeText}
      /\ args[1].Anchor \in AbsentAnchors) =>
       (err # "" /\ doc = pre.doc)
  /\ (op = "DeleteTrackedText" /\ args[1].Anchor \in AbsentAnchors) =>
       (err # "" /\ doc = pre.doc)

C17_Witness ==
  /\ op = "InsertTOC"
  /\ args[1].Position = PositionBeforeText
  /\ args[1].Anchor = "Missing"
  /\ shape.nT > 0
  /\ err = "insert TOC: anchor text not found in document"
  /\ doc = pre.doc

\* The errors of the validation of the arguments of the two merges.
HorizontalValidationErrors ==
  {"tableIndex must be >= 1", "row must be >= 1", "startCol must be >= 1",
   "endCol must be greater than startCol"}

VerticalValidationErrors ==
  {"tableIndex must be >= 1", "col must be >= 1", "startRow must be >= 1",
   "endRow must be greater than startRow"}

\* C18: a merge called with a non-positive table, row or column index or
\* with an end that is not greater than the start returns a validation
\* error, whatever the document holds (also when it holds no table), and
\* leaves document.xml unchanged.
C18_MergeValidatesBeforeScanning ==
  /\ (/\ op = "MergeTableCellsHorizontal"
      /\ (args[1] < 1 \/ args[2] < 1 \/ args[3] < 1 \/ args[4] <= args[3])) =>
       (err \in HorizontalValidationErrors /\ doc = pre.doc)
  /\ (/\ op = "MergeTableCellsVertical"
      /\ (args[1] < 1 \/ args[4] < 1 \/ args[2] < 1 \/ args[3] <= args[2])) =>
       (err \in VerticalValidationErrors /\ doc = pre.doc)

C18_Witness ==
  /\ op = "MergeTableCellsVertical"
  /\ shape.nT = 0
  /\ args = <<1, 2, 2, 1>>
  /\ err = "endRow must be greater than startRow"
  /\ doc = pre.doc

\* C19: InsertChart with an anchor-relative position and an empty anchor,
\* or with an invalid position, is rejected before any part is created or
\* modified: no chart part, workbook, chart relationships file, document
\* relationship or content type was added when the error is returned.
C19_ChartPositionRejectedEagerly ==
  (/\ op = "InsertChart"
   /\ \/ args[1].Position = PositionInvalid
      \/ (/\ args[1].Position \in {PositionAfterText, PositionBeforeText}
          /\ args[1].Anchor = "")) =>
    /\ err # ""
    /\ files = pre.files
    /\ rels = pre.rels
    /\ ctypes = pre.ctypes
    /\ doc = pre.doc

\* Where the n-th table of a body lies, from the way the body was built.
BodyTableOffset(sh, n) ==
  Len(DocOpen \o (IF sh.empty THEN "<w:p/>" ELSE FixturePara(0))
      \o BodyTables([sh EXCEPT !.nT = n - 1], 1))

\* C20: DeleteTable(n) on a document of k tables, 1 <= n <= k, removes the
\* span of the n-th table and nothing else: what lies before and after it
\* is preserved verbatim.
C20_DeleteTableRemovesExactlyNth ==
  (op = "DeleteTable" /\ args[1] >= 1 /\ args[1] <= shape.nT) =>
    /\ err = ""
    /\ doc = Slice(pre.doc, 0, BodyTableOffset(shape, args[1]))
             \o From(pre.doc, BodyTableOffset(shape, args[1])
                              + Len(BodyTable(args[1])))

C20_Witness ==
  /\ op = "DeleteTable"
  /\ args = <<2>>
  /\ shape.nT = 2
  /\ err = ""
  /\ Contains(doc, BodyTable(1) \o FixturePara(1) \o FixturePara(2))
  /\ ~Contains(doc, CellText(2, 1, 1))

\* The name an operation gives the elements it deletes by index.
DeletedKind ==
  IF op = "DeleteTable" THEN "table"
  ELSE IF op = "DeleteImage" THEN "image" ELSE "chart"

\* C21: DeleteTable, DeleteImage and DeleteChart called with an index
\* greater than the number of such elements return a not-found error that
\* reports the ordinal requested and the count available, and leave
\* document.xml unchanged.
C21_DeleteBeyondCountIsNotFound ==
  (op \in {"DeleteTable", "DeleteImage", "DeleteChart"}
   /\ args[1] > shape.nT) =>
    /\ err = "delete " \o DeletedKind \o " " \o ToStr(args[1]) \o ": "
             \o DeletedKind \o " " \o ToStr(args[1])
             \o " not found (document has " \o ToStr(shape.nT) \o " "
             \o DeletedKind \o "s)"
    /\ doc = pre.doc

C21_Witness ==
  /\ op = "DeleteChart"
  /\ shape.nT = 2
  /\ args = <<3>>
  /\ err = "delete chart 3: chart 3 not found (document has 2 charts)"
  /\ doc = pre.doc


\* Where the paragraph of the marker runs lies in a body.
MarkerParaOffset(sh) ==
  Len(BodyDoc(sh)) - Len(MarkerPara) - Len(BodyDrawings(sh, 1))
  - (IF sh.final THEN Len(FinalSectPr) ELSE 0) - Len(BodyClose)

\* A run wrapped in a deletion revision of the given id, its text node
\* renamed to deleted text.
DeletedRun(run, id) ==
  "<w:del w:id=\"" \o ToStr(id) \o "\" w:author=\"Rev\" w:date=\"" \o Now
  \o "\">" \o "<w:r><w:delText xml:space=\"preserve\">"
  \o Slice(run, Len("<w:r><w:t>"), Len(run) - Len("</w:t></w:r>"))
  \o "</w:delText></w:r></w:del>"

\* C22: marking a paragraph as deleted wraps every run with a text node in
\* a deletion revision of its own and passes every run without a text node
\* (a footnote reference run, a run of a break, a run of a tab) through
\* unchanged: of the marker paragraph only the first run is rewritten.
C22_NonTextRunsPassThrough ==
  (op = "DeleteTrackedText" /\ args[1].Anchor = "Marked" /\ err = "") =>
    \E id \in 1..9 :
      doc = Slice(pre.doc, 0, MarkerParaOffset(shape))
            \o "<w:p>" \o DeletedRun(MarkerRuns[1], id) \o MarkerRuns[2]
            \o MarkerRuns[3] \o MarkerRuns[4] \o "</w:p>"
            \o From(pre.doc, MarkerParaOffset(shape) + Len(MarkerPara))

\* C22, without the run of the tab: the text run is wrapped and the
\* footnote reference run and the run of the break are unchanged.
C22_ReferenceAndBreakRunsPassThrough ==
  (op = "DeleteTrackedText" /\ args[1].Anchor = "Marked" /\ err = "") =>
    \E id \in 1..9 :
      Slice(doc, MarkerParaOffset(shape),
            MarkerParaOffset(shape) + Len("<w:p>")
            + Len(DeletedRun(MarkerRuns[1], id)) + Len(MarkerRuns[2])
            + Len(MarkerRuns[3]))
        = "<w:p>" \o DeletedRun(MarkerRuns[1], id) \o MarkerRuns[2]
          \o MarkerRuns[3]

C22_Marked ==
  op = "DeleteTrackedText" /\ args[1].Anchor = "Marked" /\ err = ""


\* C23: a successful InsertTrackedText writes two revisions with the
\* sequential ids n and n+1, where n is the next free revision id when the
\* call starts (1 when document.xml holds no revision id, the highest one
\* plus 1 otherwise): the revision of the paragraph mark carries n, the
\* revision of the run n+1, neither id was a revision id of the document,
\* and the document gains these two revision ids and no other.
C23_TrackedInsertTakesTwoSequentialIds ==
  (op = "InsertTrackedText" /\ err = "") =>
    LET n == IF PresentIds(pre, "revision") = {} THEN 1
             ELSE SetMax(PresentIds(pre, "revision")) + 1
    IN /\ PresentIds(Pkg, "revision")
            = PresentIds(pre, "revision") \cup {n, n + 1}
       /\ CountIds(Pkg, "revision") = CountIds(pre, "revision") + 2
       /\ Cardinality(Occurrences(doc, "<w:rPr><w:ins w:id=\"" \o ToStr(n)
                                       \o "\" w:author=")) = 1
       /\ Cardinality(Occurrences(doc, "</w:pPr><w:ins w:id=\""
                                       \o ToStr(n + 1) \o "\" w:author=")) = 1
       /\ ~Contains(pre.doc, "<w:ins w:id=\"" \o ToStr(n) \o "\"")
       /\ ~Contains(pre.doc, "<w:ins w:id=\"" \o ToStr(n + 1) \o "\"")

\* The part a public operation creates when the package does not hold it
\* ("" for the other operations).
CreatedPart ==
  CASE op = "InsertFootnote" -> "footnotes.xml"
    [] op = "InsertEndnote" -> "endnotes.xml"
    [] op = "InsertComment" -> "comments.xml"
    [] op = "AddStyle" -> "styles.xml"
    [] OTHER -> ""

\* C24: an operation that has to register a part (a note, comment or
\* styles part it creates, or a new chart) does not succeed unless
\* document.xml.rels holds the relationship and [Content_Types].xml the
\* override afterwards; with a manifest that lacks its closing tag it
\* returns an error.
C24_UnclosedManifestIsAnError ==
  /\ (CreatedPart # "" /\ err = "" /\ ("word/" \o CreatedPart) \notin pre.files)
       => /\ RelationshipsTo(rels, CreatedPart) = 1
          /\ OverridesOf(ctypes, "/word/" \o CreatedPart) = 1
  /\ (op = "InsertChart" /\ err = "")
       => /\ RelationshipsTo(rels, ChartTarget(ret.chartIndex)) = 1
          /\ OverridesOf(ctypes, "/" \o ChartFile(ret.chartIndex)) = 1

\* C24, for charts alone: InsertChart on a package with an unclosed
\* manifest returns an error.
C24_ChartRejectsUnclosedManifest ==
  (op = "InsertChart"
   /\ (~Contains(pre.rels, "</Relationships>")
       \/ ~Contains(pre.ctypes, "</Types>")))
    => err # ""


\* C28: after a successful InsertFootnote, InsertEndnote or InsertComment
\* on a package with intact manifests, document.xml.rels holds a
\* relationship to the part and [Content_Types].xml its override, also
\* when the part was in the package before the call and neither manifest
\* listed it.
C28_NotePartIsRegisteredAfterSuccess ==
  (op \in {"InsertFootnote", "InsertEndnote", "InsertComment"}
   /\ err = ""
   /\ Contains(pre.rels, "</Relationships>")
   /\ Contains(pre.ctypes, "</Types>"))
    => /\ RelationshipsTo(rels, CreatedPart) >= 1
       /\ OverridesOf(ctypes, "/word/" \o CreatedPart) >= 1


\* The last section properties of the body, from the way the documents
\* of the section specification are built: what follows the last
\* paragraph.
LastSectPr(d) ==
  Slice(d, LastIndex(d, "</w:p>") + Len("</w:p>"), Index(d, "</w:body>"))

\* The element a SetPageNumber call asks for: the start when it is
\* positive, and the format, decimal when none is given.
PageNumberAsked(opts) ==
  "<w:pgNumType"
  \o (IF opts.Start > 0 THEN " w:start=\"" \o ToStr(opts.Start) \o "\"" ELSE "")
  \o " w:fmt=\"" \o (IF opts.Format = "" THEN "decimal" ELSE opts.Format)
  \o "\"/>"

\* C25: after a successful SetPageNumber, whatever calls came before it,
\* the section properties of the document hold exactly one pgNumType
\* element, and it carries the start and the format of this call and
\* nothing of an earlier one.
C25_PageNumberReplaced ==
  (op = "SetPageNumber" /\ err = "") =>
    /\ Cardinality(Occurrences(LastSectPr(doc), "<w:pgNumType")) = 1
    /\ Cardinality(Occurrences(LastSectPr(doc), PageNumberAsked(args[1]))) = 1
    /\ HasPrefix(LastSectPr(doc), "<w:sectPr>")
    /\ HasSuffix(LastSectPr(doc), "</w:sectPr>")
    /\ Cardinality(Occurrences(LastSectPr(doc), "<w:sectPr>")) = 1

\* C30: when SetTextWatermark creates a header part, it writes it under a
\* name that word/ did not hold, however many header parts there are.
C30_WatermarkHeaderNameIsUnused ==
  (op = "SetTextWatermark" /\ ret.written # "") =>
    ("word/" \o ret.written) \notin pre.files


\* The paragraph elements of a buffer: the tags named w:p, whether they
\* open a paragraph, carry attributes or are empty.
ParagraphElements(d) ==
  {i \in Occurrences(d, "<w:p") :
     Slice(d, i + Len("<w:p"), i + Len("<w:p") + 1) \in {">", " ", "/"}}

\* C26: GetParagraphCount returns the number of w:p elements of the
\* document, also when paragraphs carry paragraph properties and the body
\* has section properties.
C26_ParagraphCountCountsParagraphs ==
  op = "GetParagraphCount" => ret[1] = Cardinality(ParagraphElements(doc))


\* C27: a table index means the same table to every table operation, also
\* where opening tags of tables carry attributes: DeleteTable(n) removes
\* the n-th table of the document, the one the locator of the cell and
\* merge operations addresses with n, and GetTableCount returns the number
\* of tables, the largest index those operations accept.
C27_TableIndexMeansSameTable ==
  /\ (op = "DeleteTable" /\ args[1] <= shape.nT) =>
       /\ err = ""
       /\ doc = Slice(pre.doc, 0, TableOff(shape, args[1]))
                \o From(pre.doc, TableOff(shape, args[1])
                                 + Len(FixtureTable(shape, args[1])))
  /\ op = "GetTableCount" => ret[1] = shape.nT

\* C27, for the locator alone: findNthXMLBlock finds the n-th table where
\* it lies, with or without attributes, and no table past the last.
C27_LocatorCountsEveryTable ==
  (op = "FindBlock" /\ args[1] = "w:tbl") =>
    IF args[2] <= shape.nT
    THEN err = "" /\ ret[1] = TableOff(shape, args[2])
    ELSE err # ""


\* The paths InsertChart writes the parts of the n-th chart to.
ChartRelsFile(n) == "word/charts/_rels/chart" \o ToStr(n) \o ".xml.rels"

WorkbookFile(n) ==
  "word/embeddings/Microsoft_Excel_Worksheet" \o ToStr(n) \o ".xlsx"

\* C29: InsertChart writes the chart part, its .rels file and the
\* embedded workbook under names the package did not hold when the call
\* started, also when word/embeddings holds a workbook numbered like the
\* chart index chosen.
C29_ChartPartsAreNew ==
  (op = "InsertChart" /\ ret.chartIndex > 0) =>
    /\ {ChartFile(ret.chartIndex), ChartRelsFile(ret.chartIndex),
        WorkbookFile(ret.chartIndex)} \subseteq files
    /\ {ChartFile(ret.chartIndex), ChartRelsFile(ret.chartIndex),
        WorkbookFile(ret.chartIndex)} \cap pre.files = {}

\* C29, for the chart part alone: the chart XML is never written over a
\* chart part that was there.
C29_ChartFileIsNew ==
  (op = "InsertChart" /\ ret.chartIndex > 0) =>
    /\ ChartFile(ret.chartIndex) \in files
    /\ ChartFile(ret.chartIndex) \notin pre.files


============================================================================
